---- MODULE Spec2Model ----
(***************************************************************************)
(* A model of the orchestragent execution engine: the state store          *)
(* (utils/state_manager.py), the file lock manager (utils/file_lock.py),   *)
(* the task scheduler (utils/task_scheduler.py), the retry envelope of     *)
(* the role runner (agents/base.py) and the iteration driver (main.py).    *)
(*                                                                         *)
(* JSON documents are modelled as dictionaries: functions whose domain is  *)
(* the set of keys that are present.  A directory is a function whose      *)
(* domain is the set of files in it.                                       *)
(***************************************************************************)
EXTENDS Naturals, Integers, Sequences, FiniteSets, TLC

VARIABLES
    store,      \* the live state directory: plan.md, tasks.json, status.json, tasks/, results/
    ckpts,      \* state/checkpoints/: checkpoint name -> copied tree
    backups,    \* the backup root: backup name -> copied tree
    taken,      \* history: checkpoint name -> the live state when create_checkpoint was last called
    returned,   \* history: what the add_task calls returned since tasks.json was last replaced
    sop,        \* SpecStore: the last state-store call and the number of calls made
    lockDir,    \* state/locks/: lock file name -> lock file
    now,        \* wall clock, in seconds
    lk,         \* SpecLock: per caller, where it stands in acquire_lock / release_lock
    sched,      \* SpecSched: the last call of get_parallelizable_tasks and what it returned
    rt,         \* SpecRetry: one call of BaseAgent.run
    uj,         \* SpecUpdate: per caller, where it stands in update_json
    drv,        \* Spec: the iteration driver and the Workers of the current batch
    ms          \* SpecModels: the Worker configuration and the Workers' model selection

vars == <<store, ckpts, backups, taken, returned, sop, lockDir, now, lk, sched, rt, uj,
          drv, ms>>

storeVars == <<store, ckpts, backups, taken, returned, sop>>

lockVars == <<lockDir, now>>

(***************************************************************************)
(* Bounds of the model.                                                    *)
(***************************************************************************)
MaxTasks == 3          \* add_task is called at most this many times
MaxRetriesBound == 4   \* run(max_retries = n) is explored for n in 0..MaxRetriesBound
MaxOps == 5            \* SpecStore: state-store calls in one behaviour
MaxWorkersBound == 3   \* get_parallelizable_tasks(k) is explored for k in 0..MaxWorkersBound
TickSeconds == 5       \* SpecLock: the clock advances in steps of this many seconds
MaxClock == 35         \* SpecLock: the clock stops here
MaxRuns == 2           \* Spec: run_main_loop is started at most this many times

(***************************************************************************)
(* Dictionaries (Python dict / JSON object).                               *)
(***************************************************************************)
EmptyDict == [k \in {} |-> 0]

Get(d, k, dflt) == IF k \in DOMAIN d THEN d[k] ELSE dflt

Put(d, k, v) == [x \in (DOMAIN d) \cup {k} |-> IF x = k THEN v ELSE d[x]]

\* dict.update(u): the keys of u override those of d
DictUpdate(d, u) == [x \in (DOMAIN d) \cup (DOMAIN u) |-> IF x \in DOMAIN u THEN u[x] ELSE d[x]]

Range(s) == {s[i] : i \in DOMAIN s}

Statuses == {"pending", "in_progress", "completed", "failed"}

Priorities == {"low", "medium", "high"}

\* the values of the variables a specification does not use
NoCallers == EmptyDict

SchedIdle == [called |-> FALSE]

DrvIdle == [pc |-> "off"]

MsIdle == [config |-> "none"]

SopIdle == [op |-> "none", name |-> "none", ok |-> TRUE, count |-> 0]

(***************************************************************************)
(* agents/base.py: BaseAgent.run, the retry envelope around _run_internal. *)
(***************************************************************************)
\* What one call of _run_internal can end with.  The three retryable errors are
\* the ones utils/cursor_cli_client.py raises; "llm_fatal" is LLMError(retryable=False);
\* "agent_error" is any other AgentError (a StateError from load_state);
\* "unexpected" is any other exception (build_prompt, update_state).
RetryableOutcomes == {"rate_limit", "timeout", "generic_llm"}

AttemptOutcomes == RetryableOutcomes \cup {"ok", "llm_fatal", "agent_error", "unexpected"}

\* LLMError.retryable as set by the constructors of utils/exceptions.py
retryable(outcome) == outcome \in RetryableOutcomes

IsLLMError(outcome) == outcome \in RetryableOutcomes \cup {"llm_fatal"}

RECURSIVE Pow2(_)
Pow2(a) == IF a = 0 THEN 1 ELSE 2 * Pow2(a - 1)

wait_time_linear(attempt) == attempt + 1

\* wait_time = 2 ** attempt
wait_time(attempt) == Pow2(attempt)

RtIdle == [pc |-> "idle", max_retries |-> 0, attempt |-> 0, hist |-> <<>>,
           sleeps |-> <<>>, raised |-> "none"]

\* run(max_retries = n): enter the for loop; range(0) is empty, the function body
\* ends and run returns None.
RunCall(n) ==
    /\ rt.pc = "idle"
    /\ rt' = [rt EXCEPT !.max_retries = n,
                        !.pc = IF n = 0 THEN "returned_none" ELSE "attempt"]
    /\ UNCHANGED <<storeVars, lockVars, lk, sched, uj, drv, ms>>

\* one iteration of the for loop: _run_internal returns or raises
RunAttempt(outcome) ==
    /\ rt.pc = "attempt"
    /\ LET hist == Append(rt.hist, outcome) IN
       IF outcome = "ok"
       THEN rt' = [rt EXCEPT !.hist = hist, !.pc = "returned"]
       ELSE IF IsLLMError(outcome)
       THEN IF retryable(outcome) /\ rt.attempt < rt.max_retries - 1
            THEN rt' = [rt EXCEPT !.hist = hist,
                                  !.sleeps = Append(@, wait_time(rt.attempt)),
                                  !.attempt = @ + 1]
            ELSE rt' = [rt EXCEPT !.hist = hist, !.pc = "raised", !.raised = "LLMError"]
       ELSE \* except AgentError: raise;  except Exception: raise AgentError(...)
            rt' = [rt EXCEPT !.hist = hist, !.pc = "raised", !.raised = "AgentError"]
    /\ UNCHANGED <<storeVars, lockVars, lk, sched, uj, drv, ms>>

(***************************************************************************)
(* utils/state_manager.py: the state store.                                *)
(*                                                                         *)
(* store.files  the top-level documents that exist (plan.md, tasks.json,   *)
(*              status.json); store.plan and store.json hold their         *)
(*              contents.  store.tasks is the directory tasks/ (task id -> *)
(*              per-task record), store.results the directory results/     *)
(*              (task id -> text of results/<id>.md).                      *)
(* Timestamps (datetime.now().isoformat()) are kept as the key being       *)
(* present with the value TRUE.                                            *)
(***************************************************************************)
JsonFiles == {"tasks.json", "status.json"}

StateFiles == {"plan.md", "tasks.json", "status.json"}

\* the state directory after StateManager.__init__ on an empty directory
FreshStore == [files |-> {}, plan |-> "", json |-> [n \in JsonFiles |-> EmptyDict],
               tasks |-> EmptyDict, results |-> EmptyDict]

load_json(s, filename) == IF filename \in s.files THEN s.json[filename] ELSE EmptyDict

save_json(s, filename, data) ==
    [s EXCEPT !.files = @ \cup {filename}, !.json[filename] = data]

load_text(s) == IF "plan.md" \in s.files THEN s.plan ELSE ""

\* save_text("plan.md", content)
save_plan(s, plan) == [s EXCEPT !.files = @ \cup {"plan.md"}, !.plan = plan]

\* save_text("results/<id>.md", content)
save_result(s, task_id, content) == [s EXCEPT !.results = Put(@, task_id, content)]

\* update_json with no concurrent writer (the re-read sees the version just read);
\* updated is update_func(current_data.copy())
update_json(s, filename, updated) ==
    LET current_data == load_json(s, filename)
        version == Get(current_data, "version", 0)
        updated_data == Put(updated, "version", version + 1)
    IN  save_json(s, filename, updated_data)

update_status(s, kwargs) ==
    update_json(s, "status.json",
                Put(DictUpdate(load_json(s, "status.json"), kwargs), "last_updated", TRUE))

get_status(s) == load_json(s, "status.json")

\* str.lower() on the priority strings of the model
Lower(v) == IF v = "HIGH" THEN "high" ELSE v

\* TaskPriority.from_string: MEDIUM when the value is no priority
from_string(v) == IF Lower(v) \in Priorities THEN Lower(v) ELSE "medium"

\* TasksFile.from_dict(load_json("tasks.json"))
get_tasks_file(s) ==
    LET data == load_json(s, "tasks.json") IN
    [tasks |-> Get(data, "tasks", <<>>),
     next_task_id |-> Get(data, "next_task_id", 1),
     version |-> Get(data, "version", 0)]

\* TasksFile.get_task_index: the first entry with the id, or none
HasIndex(s, task_id) == \E i \in DOMAIN get_tasks_file(s).tasks : get_tasks_file(s).tasks[i].id = task_id

get_task_index(s, task_id) ==
    LET tasks == get_tasks_file(s).tasks
        first == CHOOSE i \in DOMAIN tasks :
                    /\ tasks[i].id = task_id
                    /\ \A j \in DOMAIN tasks : tasks[j].id = task_id => i <= j
    IN  tasks[first]

_load_task_state(s, task_id) == IF task_id \in DOMAIN s.tasks THEN s.tasks[task_id] ELSE EmptyDict

_save_task_state(s, task_id, task_data) == [s EXCEPT !.tasks = Put(@, task_id, task_data)]

\* Task.from_dict: the Task object of a per-task record, with the dataclass defaults.
\* A timestamp that was never written (None) is FALSE; a missing string is "None".
\* The id << >> is the empty id "" of a record without the key.
Task_from_dict(data) ==
    [found |-> TRUE,
     id |-> Get(data, "id", <<>>),
     status |-> Get(data, "status", "pending"),
     priority |-> from_string(Get(data, "priority", "medium")),
     files |-> Get(data, "files", <<>>),
     description |-> Get(data, "description", <<>>),
     dependencies |-> Get(data, "dependencies", <<>>),
     failed_at |-> Get(data, "failed_at", FALSE),
     assigned_to |-> Get(data, "assigned_to", "None"),
     error |-> Get(data, "error", "None")]

NoTask == [found |-> FALSE]

\* Task(id, title, priority, created_at) built from an index entry
Task_from_index(task_index) ==
    [found |-> TRUE, id |-> task_index.id, status |-> "pending",
     priority |-> from_string(task_index.priority),
     files |-> <<>>, description |-> <<>>, dependencies |-> <<>>,
     failed_at |-> FALSE, assigned_to |-> "None", error |-> "None"]

get_task_by_id(s, task_id) ==
    IF ~HasIndex(s, task_id) THEN NoTask
    ELSE LET task_state == _load_task_state(s, task_id) IN
         IF task_state = EmptyDict THEN Task_from_index(get_task_index(s, task_id))
         ELSE Task_from_dict(task_state)

\* str(n): the decimal digits of n
RECURSIVE Digits(_)
Digits(n) == IF n < 10 THEN <<n>> ELSE Append(Digits(n \div 10), n % 10)

\* the format ":03d": zero-padded to at least w digits
ZeroPad(d, w) ==
    IF Len(d) >= w THEN d
    ELSE [i \in 1..w |-> IF i <= w - Len(d) THEN 0 ELSE d[i - (w - Len(d))]]

\* f"task_{n:03d}": a task id is kept as the digits after "task_"
FormatTaskId(n) == ZeroPad(Digits(n), 3)

\* the number NNN of the id task_NNN
RECURSIVE TaskNumber(_)
TaskNumber(d) == IF d = <<>> THEN 0 ELSE 10 * TaskNumber(SubSeq(d, 1, Len(d) - 1)) + d[Len(d)]

\* the id add_task is about to return
next_id(s) == FormatTaskId(Get(load_json(s, "tasks.json"), "next_task_id", 1))

\* f"results/{task_id}.md"
result_file(task_id) == <<"results/", task_id, ".md">>

\* add_task's update without the line data['next_task_id'] += 1
add_task_index_no_increment(data, task) ==
    LET d1 == IF "tasks" \in DOMAIN data THEN data ELSE Put(data, "tasks", <<>>)
        d2 == IF "next_task_id" \in DOMAIN d1 THEN d1 ELSE Put(d1, "next_task_id", 1)
        index_entry == [id |-> FormatTaskId(d2.next_task_id),
                        priority |-> from_string(Get(task, "priority", "medium"))]
    IN  Put(d2, "tasks", Append(d2.tasks, index_entry))

\* the update function add_task hands to update_json
add_task_index(data, task) ==
    LET d1 == IF "tasks" \in DOMAIN data THEN data ELSE Put(data, "tasks", <<>>)
        d2 == IF "next_task_id" \in DOMAIN d1 THEN d1 ELSE Put(d1, "next_task_id", 1)
        index_entry == [id |-> FormatTaskId(d2.next_task_id),
                        priority |-> from_string(Get(task, "priority", "medium"))]
    IN  Put(Put(d2, "tasks", Append(d2.tasks, index_entry)),
            "next_task_id", d2.next_task_id + 1)

add_task(s, task) ==
    LET task_id == next_id(s)
        task_dict == DictUpdate(task, [id |-> task_id, status |-> "pending", created_at |-> TRUE])
        updated == update_json(s, "tasks.json",
                               add_task_index(load_json(s, "tasks.json"), task))
    IN  _save_task_state(updated, task_id, task_dict)

update_task(s, task_id, updates) ==
    LET task_state == DictUpdate(_load_task_state(s, task_id), updates)
        stamped == IF "status" \in DOMAIN updates THEN Put(task_state, "updated_at", TRUE)
                   ELSE task_state
    IN  _save_task_state(s, task_id, stamped)

assign_task(s, task_id, worker_id) ==
    update_task(s, task_id,
                [status |-> "in_progress", assigned_to |-> worker_id, started_at |-> TRUE])

\* the second half of complete_task: the per-task record
complete_task_record(s, task_id, result) ==
    update_task(s, task_id,
                [status |-> "completed", completed_at |-> TRUE,
                 result_file |-> result_file(task_id), result |-> result])

complete_task(s, task_id, result) ==
    complete_task_record(save_result(s, task_id, Get(result, "report", "")), task_id, result)

\* fail_task that also writes the error to status.json
fail_task_with_status(s, task_id, error) ==
    update_status(update_task(s, task_id, [status |-> "failed", failed_at |-> TRUE,
                                           error |-> error]),
                  [last_error |-> error])

\* fail_task that drops the error text
fail_task_without_error(s, task_id, error) ==
    update_task(s, task_id, [status |-> "failed", failed_at |-> TRUE])

fail_task(s, task_id, error) ==
    update_task(s, task_id, [status |-> "failed", failed_at |-> TRUE, error |-> error])

\* get_pending_tasks / get_all_tasks_from_files: one Task per index entry, in index order
get_all_tasks_from_files(s) ==
    LET tasks == get_tasks_file(s).tasks IN
    [i \in DOMAIN tasks |-> get_task_by_id(s, tasks[i].id)]

\* get_pending_tasks without the test is_pending
get_tasks_of_any_status(s) ==
    SelectSeq(get_all_tasks_from_files(s), LAMBDA t : t.found)

get_pending_tasks(s) ==
    SelectSeq(get_all_tasks_from_files(s), LAMBDA t : t.found /\ t.status = "pending")

RECURSIVE recover_loop(_, _)
recover_loop(s, all_tasks) ==
    IF all_tasks = <<>> THEN s
    ELSE LET task == Head(all_tasks)
             s1 == IF task.status = "in_progress"
                   THEN update_task(s, task.id,
                                    [status |-> "pending", recovered_at |-> TRUE,
                                     recovery_reason |-> "System restart - task was in_progress"])
                   ELSE s
         IN  recover_loop(s1, Tail(all_tasks))

recover_in_progress_tasks(s) == recover_loop(s, get_all_tasks_from_files(s))

\* the list recover_in_progress_tasks returns
recovered_ids(s) ==
    LET all == SelectSeq(get_all_tasks_from_files(s), LAMBDA t : t.status = "in_progress")
    IN  [i \in DOMAIN all |-> all[i].id]

\* what create_checkpoint, create_backup and restore_checkpoint all do: copy each of
\* plan.md, tasks.json, status.json that exists in src over dst, and replace the
\* directories tasks/ and results/ of dst by those of src
copy_state(dst, src) ==
    [files |-> dst.files \cup src.files,
     plan |-> IF "plan.md" \in src.files THEN src.plan ELSE dst.plan,
     json |-> [n \in JsonFiles |-> IF n \in src.files THEN src.json[n] ELSE dst.json[n]],
     tasks |-> src.tasks,
     results |-> src.results]

\* state/checkpoints/ after create_checkpoint(checkpoint_name); mkdir(exist_ok=True)
\* keeps what an earlier checkpoint of the name left there
create_checkpoint(cks, s, checkpoint_name) ==
    Put(cks, checkpoint_name, copy_state(Get(cks, checkpoint_name, FreshStore), s))

\* without the copy of create_backup
create_backup_skipped(bks, s, backup_name) == bks

\* the backup root after create_backup(backup_name)
create_backup(bks, s, backup_name) ==
    Put(bks, backup_name, copy_state(Get(bks, backup_name, FreshStore), s))

\* f"pre_restore_{datetime.now().strftime('%Y%m%d_%H%M%S')}": one name per second
pre_restore_name(t) == <<"pre_restore_", t>>

\* the live state after restore_checkpoint(checkpoint_name) of an existing checkpoint
restore_checkpoint(s, cks, checkpoint_name) == copy_state(s, cks[checkpoint_name])

(***************************************************************************)
(* SpecRetry: calls of BaseAgent.run with every outcome of every attempt.  *)
(***************************************************************************)
InitRetry ==
    /\ rt = RtIdle
    /\ store = FreshStore /\ ckpts = EmptyDict /\ backups = EmptyDict
    /\ taken = EmptyDict /\ returned = <<>> /\ sop = SopIdle
    /\ lockDir = EmptyDict /\ now = 0 /\ lk = NoCallers
    /\ sched = SchedIdle /\ uj = NoCallers /\ drv = DrvIdle /\ ms = MsIdle

NextRetry ==
    \/ \E n \in 0..MaxRetriesBound : RunCall(n)
    \/ \E outcome \in AttemptOutcomes : RunAttempt(outcome)

SpecRetry == InitRetry /\ [][NextRetry]_vars

\* AgentError and its subclasses (LLMError and the errors derived from it)
IsAgentError(raised) == raised \in {"AgentError", "LLMError"}

RunOver == rt.pc \in {"returned", "returned_none", "raised"}

\* the sleeps of n attempts that all fail with a retryable error: 1, 2, 4, ... (n - 1 of them)
ExpectedSleeps(n) == [a \in 1..(n - 1) |-> Pow2(a - 1)]

AllRetryable == \A i \in DOMAIN rt.hist : retryable(rt.hist[i])

RetryExhausted ==
    /\ Len(rt.hist) = rt.max_retries
    /\ rt.sleeps = ExpectedSleeps(rt.max_retries)
    /\ rt.pc = "raised" /\ IsAgentError(rt.raised)

NoRetryAfterFatal ==
    \A i \in DOMAIN rt.hist :
        rt.hist[i] \notin RetryableOutcomes \cup {"ok"} =>
            /\ i = Len(rt.hist)
            /\ rt.pc = "raised" /\ IsAgentError(rt.raised)

\* the contract, whatever n is
RetryContract ==
    /\ (RunOver /\ AllRetryable) => RetryExhausted
    /\ NoRetryAfterFatal

\* C9 (retry contract): a finished run(max_retries = n), n >= 1 (so that "n - 1 sleeps"
\* is a number of sleeps), whose attempts all failed with a retryable error made exactly
\* n attempts, slept 1, 2, 4, ... after the first n - 1 of them and raised an AgentError;
\* an attempt that fails with a non-retryable error or an unexpected exception is the
\* last one and an AgentError is raised at once.
C9_RetryContract ==
    rt.max_retries >= 1 => RetryContract

\* three attempts, all failing with a retryable error: sleeps of 1 s and 2 s, then the raise
C9_ThreeAttempts ==
    /\ rt.pc = "raised" /\ rt.max_retries = 3
    /\ rt.hist = <<"timeout", "rate_limit", "generic_llm">>
    /\ rt.sleeps = <<1, 2>>

(***************************************************************************)
(* SpecStore: a client calling the state-store API in any order.           *)
(***************************************************************************)
PlanTexts == {"plan A", "plan B"}

CheckpointNames == {"c1", "c2"}

StoreTaskInputs == {[title |-> "first"], [title |-> "second", priority |-> "HIGH"]}

\* the ids the client passes: task_001 and task_002, whether or not they were added
StoreTaskIds == {FormatTaskId(1), FormatTaskId(2)}

StorePatches == {[status |-> "in_progress"], [priority |-> "low"]}

Reports == {[report |-> "done"], [summary |-> "no report"]}

\* the stores a client can start from: an empty state directory, or one holding a task
StartStores == {FreshStore, add_task(FreshStore, [title |-> "zeroth"])}

Called(op, name, ok) == sop' = [op |-> op, name |-> name, ok |-> ok, count |-> sop.count + 1]

OtherThanStore == <<lockDir, now, lk, sched, rt, uj, drv, ms>>

SSavePlan(plan) ==
    /\ sop.count < MaxOps
    /\ store' = save_plan(store, plan)
    /\ Called("save_plan", "none", TRUE)
    /\ UNCHANGED <<ckpts, backups, taken, returned, OtherThanStore>>

SAddTask(task) ==
    /\ sop.count < MaxOps
    /\ TaskNumber(next_id(store)) <= MaxTasks
    /\ store' = add_task(store, task)
    /\ returned' = Append(returned,
                          [id |-> next_id(store),
                           before |-> get_tasks_file(store).next_task_id,
                           after |-> get_tasks_file(store').next_task_id])
    /\ Called("add_task", "none", TRUE)
    /\ UNCHANGED <<ckpts, backups, taken, OtherThanStore>>

SUpdateTask(task_id, updates) ==
    /\ sop.count < MaxOps
    /\ store' = update_task(store, task_id, updates)
    /\ Called("update_task", "none", TRUE)
    /\ UNCHANGED <<ckpts, backups, taken, returned, OtherThanStore>>

SCompleteTask(task_id, result) ==
    /\ sop.count < MaxOps
    /\ store' = complete_task(store, task_id, result)
    /\ Called("complete_task", "none", TRUE)
    /\ UNCHANGED <<ckpts, backups, taken, returned, OtherThanStore>>

SUpdateStatus(kwargs) ==
    /\ sop.count < MaxOps
    /\ store' = update_status(store, kwargs)
    /\ Called("update_status", "none", TRUE)
    /\ UNCHANGED <<ckpts, backups, taken, returned, OtherThanStore>>

SCreateCheckpoint(checkpoint_name) ==
    /\ sop.count < MaxOps
    /\ ckpts' = create_checkpoint(ckpts, store, checkpoint_name)
    /\ taken' = Put(taken, checkpoint_name, store)
    /\ Called("create_checkpoint", checkpoint_name, TRUE)
    /\ UNCHANGED <<store, backups, returned, OtherThanStore>>

\* restore_checkpoint: StateError for a missing checkpoint; else the pre-restore backup,
\* then the copy back
SRestoreCheckpoint(checkpoint_name) ==
    /\ sop.count < MaxOps
    /\ IF checkpoint_name \notin DOMAIN ckpts
       THEN /\ Called("restore_checkpoint", checkpoint_name, FALSE)
            /\ UNCHANGED <<store, backups, returned>>
       ELSE /\ backups' = create_backup(backups, store, pre_restore_name(now))
            /\ store' = restore_checkpoint(store, ckpts, checkpoint_name)
            /\ returned' = IF "tasks.json" \in ckpts[checkpoint_name].files THEN <<>>
                           ELSE returned
            /\ Called("restore_checkpoint", checkpoint_name, TRUE)
    /\ UNCHANGED <<ckpts, taken, OtherThanStore>>

\* recover_in_progress_tasks(): the per-task records it rewrites
SRecover ==
    /\ sop.count < MaxOps
    /\ store' = recover_in_progress_tasks(store)
    /\ Called("recover_in_progress_tasks", "none", TRUE)
    /\ UNCHANGED <<ckpts, backups, taken, returned, OtherThanStore>>

InitStore ==
    /\ store \in StartStores
    /\ ckpts = EmptyDict /\ backups = EmptyDict
    /\ taken = EmptyDict /\ returned = <<>> /\ sop = SopIdle
    /\ lockDir = EmptyDict /\ now = 0 /\ lk = NoCallers
    /\ sched = SchedIdle /\ rt = RtIdle /\ uj = NoCallers /\ drv = DrvIdle /\ ms = MsIdle

NextStore ==
    \/ \E plan \in PlanTexts : SSavePlan(plan)
    \/ \E task \in StoreTaskInputs : SAddTask(task)
    \/ \E task_id \in StoreTaskIds, updates \in StorePatches : SUpdateTask(task_id, updates)
    \/ \E task_id \in StoreTaskIds, result \in Reports : SCompleteTask(task_id, result)
    \/ SUpdateStatus([current_iteration |-> 1])
    \/ \E c \in CheckpointNames : SCreateCheckpoint(c)
    \/ \E c \in CheckpointNames : SRestoreCheckpoint(c)
    \/ SRecover

SpecStore == InitStore /\ [][NextStore]_vars

\* the index entries of the live tasks.json whose id is task_id
IndexEntries(task_id) ==
    {i \in DOMAIN get_tasks_file(store).tasks : get_tasks_file(store).tasks[i].id = task_id}

\* C8 (monotonic ids): for the add_task calls made since tasks.json was last replaced,
\* the numbers NNN of the returned ids strictly increase in call order, no id is returned
\* twice, each returned id has exactly one index entry, and next_task_id is strictly
\* larger after each add than before it.
C8_MonotonicIds ==
    /\ \A i, j \in DOMAIN returned :
          i < j => /\ TaskNumber(returned[i].id) < TaskNumber(returned[j].id)
                   /\ returned[i].id # returned[j].id
    /\ \A i \in DOMAIN returned :
          /\ Cardinality(IndexEntries(returned[i].id)) = 1
          /\ returned[i].after > returned[i].before

\* two adds in a row on an index that already held a task
C8_TwoAddsOnExistingIndex ==
    /\ Len(returned) >= 2
    /\ TaskNumber(returned[1].id) > 1
    /\ sop.op = "add_task"

\* the live state is, file by file, what it was when the checkpoint c was taken
LiveEqualsTaken(c) ==
    /\ store.files = taken[c].files
    /\ load_text(store) = load_text(taken[c])
    /\ \A n \in JsonFiles : load_json(store, n) = load_json(taken[c], n)
    /\ store.tasks = taken[c].tasks
    /\ store.results = taken[c].results

Restored == sop.op = "restore_checkpoint" /\ sop.ok

\* C10 (checkpoint round-trip): right after restore_checkpoint(c) the live plan.md,
\* tasks.json, status.json, per-task files and results are what they were when
\* create_checkpoint(c) was taken.
C10_CheckpointRoundTrip ==
    Restored => LiveEqualsTaken(sop.name)

\* the round trip when plan.md, tasks.json and status.json all existed at the checkpoint
C10_RoundTripOfExistingFiles ==
    (Restored /\ taken[sop.name].files = StateFiles) => LiveEqualsTaken(sop.name)

(***************************************************************************)
(* utils/file_lock.py: the lock directory.  A lock file is kept as         *)
(* [mtime, task_id]; lockDir maps the names of the lock files that exist   *)
(* to them.                                                                *)
(***************************************************************************)
\* strip of leading and trailing slashes, backslash to slash, on the paths of the model
_normalize_path(filepath) ==
    CASE filepath = "/a.py" -> "a.py"
      [] filepath = "src\\b.py" -> "src/b.py"
      [] OTHER -> filepath

\* normalized_path.replace('/', '_')
SlashToUnderscore(normalized_path) ==
    CASE normalized_path = "src/b.py" -> "src_b.py"
      [] OTHER -> normalized_path

\* lock_dir / f"{normalized_path.replace('/', '_')}.lock"
lock_file_of(filepath) == <<SlashToUnderscore(_normalize_path(filepath)), ".lock">>

\* _is_lock_stale that finds no existing lock file stale
_is_lock_stale_only_when_gone(dir, t, lock_file, timeout) == lock_file \notin DOMAIN dir

\* stat() of a file that is gone raises, and the except clause answers True
_is_lock_stale(dir, t, lock_file, timeout) ==
    IF lock_file \in DOMAIN dir THEN t - dir[lock_file].mtime > timeout ELSE TRUE

IsLockedTimeout == 30

is_locked(dir, t, filepath) ==
    /\ lock_file_of(filepath) \in DOMAIN dir
    /\ ~_is_lock_stale(dir, t, lock_file_of(filepath), IsLockedTimeout)

(***************************************************************************)
(* utils/task_scheduler.py.  A description is kept as the sequence of the  *)
(* file mentions in it, each [form, path] with form "file:" (file: x.py),  *)
(* "quoted" (x.py in quotes or backticks) or "bare" (x.py in running text). *)
(***************************************************************************)
\* re.findall(explicit_pattern, description): the paths after "file:"
explicit_matches(description) ==
    LET hits == SelectSeq(description, LAMBDA mention : mention.form = "file:")
    IN  [i \in DOMAIN hits |-> hits[i].path]

\* re.findall(quoted_pattern, description): the paths in quotes or backticks
quoted_matches(description) ==
    LET hits == SelectSeq(description, LAMBDA mention : mention.form = "quoted")
    IN  [i \in DOMAIN hits |-> hits[i].path]

\* re.findall(common_pattern, description): every path, however it is written
common_matches(description) == [i \in DOMAIN description |-> description[i].path]

\* filepath.strip() and then the strip of quote characters, on the paths of the model
Strip(filepath) ==
    CASE filepath = " a.py" -> "a.py"
      [] filepath = "'b.py'" -> "b.py"
      [] filepath = " " -> ""
      [] OTHER -> filepath

\* the loop over files that normalizes, drops empty paths and keeps first occurrences
RECURSIVE normalize_and_dedup(_, _)
normalize_and_dedup(files, normalized_files) ==
    IF files = <<>> THEN normalized_files
    ELSE LET normalized == Strip(Head(files)) IN
         IF normalized # "" /\ normalized \notin Range(normalized_files)
         THEN normalize_and_dedup(Tail(files), Append(normalized_files, normalized))
         ELSE normalize_and_dedup(Tail(files), normalized_files)

_extract_task_files(task) ==
    normalize_and_dedup(task.files \o explicit_matches(task.description)
                            \o quoted_matches(task.description)
                            \o common_matches(task.description),
                        <<>>)

\* priority_map.get(priority, 2)
_get_priority_score(task) ==
    CASE task.priority = "high" -> 3
      [] task.priority = "medium" -> 2
      [] task.priority = "low" -> 1
      [] OTHER -> 2

\* the mutated test: every dependency is a known task, whatever its status
all_known(s, task) ==
    \A i \in DOMAIN task.dependencies : get_task_by_id(s, task.dependencies[i]).found

\* every dependency is a known task whose status is completed
all_completed(s, task) ==
    \A i \in DOMAIN task.dependencies :
        LET dep_task == get_task_by_id(s, task.dependencies[i])
        IN  dep_task.found /\ dep_task.status = "completed"

\* the mutated filter: every pending task counts as ready
_filter_nothing(s, tasks) == tasks

_filter_ready_tasks(s, tasks) == SelectSeq(tasks, LAMBDA task : all_completed(s, task))

\* list.sort(key = score, reverse = True): stable, so equal scores keep their order
sort_by_priority(ready_tasks) ==
    SelectSeq(ready_tasks, LAMBDA task : _get_priority_score(task) = 3)
        \o SelectSeq(ready_tasks, LAMBDA task : _get_priority_score(task) = 2)
        \o SelectSeq(ready_tasks, LAMBDA task : _get_priority_score(task) = 1)

\* the mutated test: only the lock directory is consulted
conflicts_with_lock_files_only(task_files, locked_files, dir, t) ==
    \E i \in DOMAIN task_files : is_locked(dir, t, task_files[i])

\* the inner loop of the selection: filepath in locked_files or is_locked(filepath)
conflicts(task_files, locked_files, dir, t) ==
    \E i \in DOMAIN task_files :
        task_files[i] \in locked_files \/ is_locked(dir, t, task_files[i])

\* the selection loop, from the task at the head of ready_tasks on
RECURSIVE select_tasks(_, _, _, _, _, _)
select_tasks(ready_tasks, selected_tasks, locked_files, max_workers, dir, t) ==
    IF ready_tasks = <<>> THEN selected_tasks
    ELSE LET task == Head(ready_tasks)
             task_files == _extract_task_files(task)
         IN  IF conflicts(task_files, locked_files, dir, t)
             THEN select_tasks(Tail(ready_tasks), selected_tasks, locked_files,
                               max_workers, dir, t)
             ELSE IF Len(selected_tasks) + 1 >= max_workers
                  THEN Append(selected_tasks, task)
                  ELSE select_tasks(Tail(ready_tasks), Append(selected_tasks, task),
                                    locked_files \cup Range(task_files), max_workers, dir, t)

get_parallelizable_tasks(s, dir, t, max_workers) ==
    LET pending_tasks == get_pending_tasks(s) IN
    IF pending_tasks = <<>> THEN <<>>
    ELSE select_tasks(sort_by_priority(_filter_ready_tasks(s, pending_tasks)),
                      <<>>, {}, max_workers, dir, t)

can_tasks_run_parallel(task1, task2) ==
    /\ Range(_extract_task_files(task1)) \cap Range(_extract_task_files(task2)) = {}
    /\ task1.id \notin Range(task2.dependencies)
    /\ task2.id \notin Range(task1.dependencies)

(***************************************************************************)
(* SpecSched: the Planner adds tasks, Workers take them through their      *)
(* statuses, and the scheduler is asked for a batch in every state.        *)
(***************************************************************************)
\* the tasks a Planner response can ask for
TaskInputs ==
    {[title |-> "A", priority |-> "high", files |-> <<"a.py">>],
     [title |-> "B", files |-> <<" a.py">>],
     [title |-> "C", priority |-> "low", files |-> <<"'b.py'">>,
      dependencies |-> <<FormatTaskId(1)>>],
     [title |-> "D", priority |-> "HIGH",
      description |-> <<[form |-> "quoted", path |-> "a.py"]>>],
     [title |-> "E", dependencies |-> <<FormatTaskId(9)>>],
     [title |-> "F", description |-> <<[form |-> "file:", path |-> "b.py"]>>]}

SchedNow == 40

\* the lock directory the scheduler can meet: empty, a lock on a.py taken this second,
\* or a lock on a.py left behind 40 seconds ago
SchedLockDirs ==
    {EmptyDict,
     [f \in {lock_file_of("a.py")} |-> [mtime |-> SchedNow, task_id |-> FormatTaskId(1)]],
     [f \in {lock_file_of("/a.py")} |-> [mtime |-> 0, task_id |-> FormatTaskId(1)]]}

\* the ids add_task can have returned
AllTaskIds == {FormatTaskId(n) : n \in 1..MaxTasks}

\* the ids in the index tasks.json
IndexIds(s) == {get_tasks_file(s).tasks[i].id : i \in DOMAIN get_tasks_file(s).tasks}

StatusOf(s, task_id) == get_task_by_id(s, task_id).status

OtherThanSched == <<ckpts, backups, taken, returned, sop, lockDir, now, lk, rt, uj, drv,
                    ms>>

KAddTask(task) ==
    /\ Cardinality(IndexIds(store)) < MaxTasks
    /\ store' = add_task(store, task)
    /\ sched' = SchedIdle
    /\ UNCHANGED OtherThanSched

KAssignTask(task_id) ==
    /\ task_id \in IndexIds(store)
    /\ StatusOf(store, task_id) = "pending"
    /\ store' = assign_task(store, task_id, "worker")
    /\ sched' = SchedIdle
    /\ UNCHANGED OtherThanSched

KCompleteTask(task_id) ==
    /\ task_id \in IndexIds(store)
    /\ StatusOf(store, task_id) = "in_progress"
    /\ store' = complete_task(store, task_id, [report |-> "done"])
    /\ sched' = SchedIdle
    /\ UNCHANGED OtherThanSched

KFailTask(task_id) ==
    /\ task_id \in IndexIds(store)
    /\ StatusOf(store, task_id) = "in_progress"
    /\ store' = fail_task(store, task_id, "error")
    /\ sched' = SchedIdle
    /\ UNCHANGED OtherThanSched

KSchedule(max_workers) ==
    /\ ~sched.called
    /\ sched' = [called |-> TRUE, max_workers |-> max_workers,
                 batch |-> get_parallelizable_tasks(store, lockDir, now, max_workers)]
    /\ UNCHANGED <<store, OtherThanSched>>

InitSched ==
    /\ store = FreshStore
    /\ lockDir \in SchedLockDirs /\ now = SchedNow
    /\ sched = SchedIdle
    /\ ckpts = EmptyDict /\ backups = EmptyDict
    /\ taken = EmptyDict /\ returned = <<>> /\ sop = SopIdle
    /\ lk = NoCallers /\ rt = RtIdle /\ uj = NoCallers /\ drv = DrvIdle /\ ms = MsIdle

NextSched ==
    \/ \E task \in TaskInputs : KAddTask(task)
    \/ \E task_id \in AllTaskIds : KAssignTask(task_id)
    \/ \E task_id \in AllTaskIds : KCompleteTask(task_id)
    \/ \E task_id \in AllTaskIds : KFailTask(task_id)
    \/ \E max_workers \in 0..MaxWorkersBound : KSchedule(max_workers)

SpecSched == InitSched /\ [][NextSched]_vars

\* the paths a description mentions
MentionedPaths(description) == {description[i].path : i \in DOMAIN description}

\* the files a task says it will touch: its files field and the paths of its description
RawIntendedFiles(task) == Range(task.files) \cup MentionedPaths(task.description)

\* the same, with the whitespace and quotes around a path taken off
IntendedFiles(task) == {Strip(f) : f \in RawIntendedFiles(task)} \ {""}

\* C5 (scheduler pairwise safety): any two distinct tasks of a batch returned by
\* get_parallelizable_tasks(k) have disjoint intended file sets (as written and with
\* whitespace and quotes stripped) and neither lists the other in its dependencies.
C5_PairwiseSafety ==
    sched.called =>
        \A i, j \in DOMAIN sched.batch :
            i # j =>
                /\ sched.batch[i].id # sched.batch[j].id
                /\ IntendedFiles(sched.batch[i]) \cap IntendedFiles(sched.batch[j]) = {}
                /\ RawIntendedFiles(sched.batch[i]) \cap RawIntendedFiles(sched.batch[j]) = {}
                /\ sched.batch[i].id \notin Range(sched.batch[j].dependencies)

InBatch(task_id) == \E i \in DOMAIN sched.batch : sched.batch[i].id = task_id

\* a batch of two tasks with files, a third ready task left out because it shares a file
C5_ConflictingTaskLeftOut ==
    /\ sched.called
    /\ Len(sched.batch) = 2 /\ sched.max_workers = 3
    /\ \A i \in DOMAIN sched.batch : IntendedFiles(sched.batch[i]) # {}
    /\ \E task_id \in IndexIds(store) :
          /\ ~InBatch(task_id)
          /\ StatusOf(store, task_id) = "pending"
          /\ IntendedFiles(get_task_by_id(store, task_id))
                 \cap IntendedFiles(sched.batch[1]) # {}

\* the status written in the per-task file tasks/<id>.json
PerTaskStatus(s, task_id) ==
    IF task_id \in DOMAIN s.tasks /\ "status" \in DOMAIN s.tasks[task_id]
    THEN s.tasks[task_id].status ELSE "none"

\* T2 depends on the pending task_001, nothing else is in the index, no lock is in the way
DependsOnPendingFirst ==
    /\ IndexIds(store) = {FormatTaskId(1), FormatTaskId(2)}
    /\ PerTaskStatus(store, FormatTaskId(1)) = "pending"
    /\ PerTaskStatus(store, FormatTaskId(2)) = "pending"
    /\ Get(store.tasks[FormatTaskId(1)], "dependencies", <<>>) = <<>>
    /\ Get(store.tasks[FormatTaskId(2)], "dependencies", <<>>) = <<FormatTaskId(1)>>
    /\ \A f \in IntendedFiles(get_task_by_id(store, FormatTaskId(1))) :
          ~is_locked(lockDir, now, f)

\* C6 (dependency gating): every task of a returned batch is pending and each id in its
\* dependencies names a task of the index whose per-task status is completed; when T2
\* depends on the pending task_001 the batch of k >= 1 is [task_001].
C6_DependencyGating ==
    sched.called =>
        /\ \A i \in DOMAIN sched.batch :
              /\ sched.batch[i].id \in IndexIds(store)
              /\ PerTaskStatus(store, sched.batch[i].id) = "pending"
              /\ \A d \in Range(sched.batch[i].dependencies) :
                    d \in IndexIds(store) /\ PerTaskStatus(store, d) = "completed"
        /\ (DependsOnPendingFirst /\ sched.max_workers >= 1) =>
              /\ Len(sched.batch) = 1
              /\ sched.batch[1].id = FormatTaskId(1)

\* T2 is returned once task_001, on which it depends, is completed
C6_DependentReturnedAfterCompletion ==
    /\ sched.called
    /\ \E i \in DOMAIN sched.batch :
          /\ sched.batch[i].id = FormatTaskId(2)
          /\ sched.batch[i].dependencies = <<FormatTaskId(1)>>
    /\ PerTaskStatus(store, FormatTaskId(1)) = "completed"

\* C7 (batch size bound): get_parallelizable_tasks(k) returns at most k tasks, for every
\* k >= 0.
C7_BatchSizeBound ==
    sched.called => Len(sched.batch) <= sched.max_workers

\* the bound for k >= 1
C7_BatchSizeBoundFromOne ==
    (sched.called /\ sched.max_workers >= 1) => Len(sched.batch) <= sched.max_workers

(***************************************************************************)
(* SpecLock: Workers calling acquire_lock and release_lock, one statement  *)
(* of the retry loop at a time, while the clock runs.                      *)
(***************************************************************************)
LockCallers == {"task_A", "task_B"}

LockPaths == {"a.py", "/a.py"}

\* timeout=10.0 in run_worker_task, and the default of acquire_lock
WorkerLockTimeout == 10

DefaultLockTimeout == 30

AcquireTimeouts == {WorkerLockTimeout, DefaultLockTimeout}

LkIdle == [pc |-> "idle", filepath |-> "none", timeout |-> 0, start_time |-> 0,
           result |-> "none"]

OtherThanLock == <<storeVars, sched, rt, uj, drv, ms>>

\* acquire_lock(filepath, task_id, timeout): start_time = time.time()
LAcquireCall(c, filepath, timeout) ==
    /\ lk[c].pc = "idle"
    /\ lk' = [lk EXCEPT ![c] = [pc |-> "loop", filepath |-> filepath, timeout |-> timeout,
                                start_time |-> now, result |-> "none"]]
    /\ UNCHANGED <<lockDir, now, OtherThanLock>>

\* the while test and os.open(O_CREAT | O_EXCL): the lock file is created, with the
\* metadata, only if it is not there; FileExistsError leads on to the stale check
LTryCreate(c) ==
    /\ lk[c].pc = "loop"
    /\ LET lock_file == lock_file_of(lk[c].filepath) IN
       IF ~(now - lk[c].start_time < lk[c].timeout)
       THEN /\ lk' = [lk EXCEPT ![c].pc = "idle", ![c].result = "False"]
            /\ UNCHANGED lockDir
       ELSE IF lock_file \notin DOMAIN lockDir
       THEN /\ lockDir' = Put(lockDir, lock_file, [mtime |-> now, task_id |-> c])
            /\ lk' = [lk EXCEPT ![c].pc = "held", ![c].result = "True"]
       ELSE /\ lk' = [lk EXCEPT ![c].pc = "exists"]
            /\ UNCHANGED lockDir
    /\ UNCHANGED <<now, OtherThanLock>>

\* except FileExistsError: if self._is_lock_stale(lock_file, timeout), else sleep(0.1)
LCheckStale(c) ==
    /\ lk[c].pc = "exists"
    /\ lk' = [lk EXCEPT ![c].pc =
                 IF _is_lock_stale(lockDir, now, lock_file_of(lk[c].filepath), lk[c].timeout)
                 THEN "unlink" ELSE "loop"]
    /\ UNCHANGED <<lockDir, now, OtherThanLock>>

\* lock_file.unlink(), errors ignored, then continue
LUnlinkStale(c) ==
    /\ lk[c].pc = "unlink"
    /\ lockDir' = [f \in DOMAIN lockDir \ {lock_file_of(lk[c].filepath)} |-> lockDir[f]]
    /\ lk' = [lk EXCEPT ![c].pc = "loop"]
    /\ UNCHANGED <<now, OtherThanLock>>

\* release_lock(filepath) by the caller that acquired it: the lock file that is there
\* is removed, whoever wrote it
LRelease(c) ==
    /\ lk[c].pc = "held"
    /\ lockDir' = [f \in DOMAIN lockDir \ {lock_file_of(lk[c].filepath)} |-> lockDir[f]]
    /\ lk' = [lk EXCEPT ![c] = LkIdle]
    /\ UNCHANGED <<now, OtherThanLock>>

\* time passes (the LLM call of a Worker that holds locks, the sleeps of the loop)
LTick ==
    /\ now + TickSeconds <= MaxClock
    /\ now' = now + TickSeconds
    /\ UNCHANGED <<lockDir, lk, OtherThanLock>>

InitLock ==
    /\ lk = [c \in LockCallers |-> LkIdle]
    /\ lockDir = EmptyDict /\ now = 0
    /\ store = FreshStore /\ ckpts = EmptyDict /\ backups = EmptyDict
    /\ taken = EmptyDict /\ returned = <<>> /\ sop = SopIdle
    /\ sched = SchedIdle /\ rt = RtIdle /\ uj = NoCallers /\ drv = DrvIdle /\ ms = MsIdle

NextLock ==
    \/ \E c \in LockCallers, filepath \in LockPaths, timeout \in AcquireTimeouts :
          LAcquireCall(c, filepath, timeout)
    \/ \E c \in LockCallers : LTryCreate(c)
    \/ \E c \in LockCallers : LCheckStale(c)
    \/ \E c \in LockCallers : LUnlinkStale(c)
    \/ \E c \in LockCallers : LRelease(c)
    \/ LTick

SpecLock == InitLock /\ [][NextLock]_vars

\* c's acquire_lock returned True and c has not called release_lock since
HoldsLock(c) == lk[c].pc = "held"

\* C1 (lock exclusivity): no two callers hold the lock of the same file at once, i.e. no
\* acquire_lock(p, B) returns True between acquire_lock(p, A) returning True and A's
\* release_lock(p), however long A keeps the lock.
C1_LockExclusivity ==
    \A a, b \in LockCallers :
        (a # b /\ HoldsLock(a) /\ HoldsLock(b)) =>
            lock_file_of(lk[a].filepath) # lock_file_of(lk[b].filepath)

(***************************************************************************)
(* agents/planner.py, agents/worker.py, agents/judge.py: update_state.     *)
(***************************************************************************)
\* the dictionary without the key k
Without(d, k) == [x \in DOMAIN d \ {k} |-> d[x]]

\* PlannerAgent._extract_files_from_description: the explicit and the quoted mentions
_extract_files_from_description(description) ==
    normalize_and_dedup(explicit_matches(description) \o quoted_matches(description), <<>>)

\* the loop over updated_tasks: every field but id is written to the per-task file
RECURSIVE apply_updated_tasks(_, _)
apply_updated_tasks(s, updated_tasks) ==
    IF updated_tasks = <<>> THEN s
    ELSE LET updated == Head(updated_tasks)
             updates == Without(updated, "id")
             s1 == IF "id" \notin DOMAIN updated \/ updates = EmptyDict THEN s
                   ELSE update_task(s, updated.id, updates)
         IN  apply_updated_tasks(s1, Tail(updated_tasks))

\* the loop over new_tasks: files are filled in from the description when they are
\* missing, then add_task
RECURSIVE add_new_tasks(_, _)
add_new_tasks(s, new_tasks) ==
    IF new_tasks = <<>> THEN s
    ELSE LET task == Head(new_tasks)
             files == _extract_files_from_description(Get(task, "description", <<>>))
             filled == IF "files" \notin DOMAIN task /\ files # <<>>
                       THEN Put(task, "files", files) ELSE task
         IN  add_new_tasks(add_task(s, filled), Tail(new_tasks))

\* PlannerAgent.update_state(result)
planner_update_state(s, result) ==
    LET plan_update == Get(result, "plan_update", "")
        s1 == IF plan_update # "" THEN save_plan(s, plan_update) ELSE s
        s2 == apply_updated_tasks(s1, Get(result, "updated_tasks", <<>>))
    IN  add_new_tasks(s2, Get(result, "new_tasks", <<>>))

\* JudgeAgent.update_state(result)
judge_update_state(s, result) ==
    update_status(s, [last_judge_run |-> TRUE,
                      should_continue |-> Get(result, "should_continue", TRUE),
                      drift_detected |-> Get(result, "drift_detected", FALSE)])

\* WorkerAgent.assign_task: only a task that is found and pending is assigned
can_assign(s, task_id) ==
    get_task_by_id(s, task_id).found /\ get_task_by_id(s, task_id).status = "pending"

\* without the unlink of release_lock
release_nothing(dir, locked) == dir

\* release_lock for every path of locked: the lock file that is there is removed
release_locks(dir, locked) ==
    [f \in DOMAIN dir \ {lock_file_of(locked[i]) : i \in DOMAIN locked} |-> dir[f]]

\* the loop of run_worker_task over task_files while the clock stands at t: a lock file
\* that is absent is created, one that is stale for the timeout of 10 s is replaced, and
\* one that stays makes acquire_lock return False, on which the locks taken so far are
\* released
RECURSIVE acquire_locks_keeping(_, _, _, _, _)
acquire_locks_keeping(dir, t, task_files, task_id, locks_acquired) ==
    IF task_files = <<>> THEN [ok |-> TRUE, dir |-> dir, locks_acquired |-> locks_acquired]
    ELSE LET lock_file == lock_file_of(Head(task_files)) IN
         IF lock_file \notin DOMAIN dir
               \/ _is_lock_stale(dir, t, lock_file, WorkerLockTimeout)
         THEN acquire_locks_keeping(Put(dir, lock_file, [mtime |-> t, task_id |-> task_id]),
                                    t, Tail(task_files), task_id,
                                    Append(locks_acquired, Head(task_files)))
         ELSE [ok |-> FALSE, dir |-> dir, locks_acquired |-> <<>>]

RECURSIVE acquire_locks(_, _, _, _, _)
acquire_locks(dir, t, task_files, task_id, locks_acquired) ==
    IF task_files = <<>> THEN [ok |-> TRUE, dir |-> dir, locks_acquired |-> locks_acquired]
    ELSE LET lock_file == lock_file_of(Head(task_files)) IN
         IF lock_file \notin DOMAIN dir
               \/ _is_lock_stale(dir, t, lock_file, WorkerLockTimeout)
         THEN acquire_locks(Put(dir, lock_file, [mtime |-> t, task_id |-> task_id]), t,
                            Tail(task_files), task_id,
                            Append(locks_acquired, Head(task_files)))
         ELSE [ok |-> FALSE, dir |-> release_locks(dir, locks_acquired),
               locks_acquired |-> <<>>]

\* without the loop of release_all_locks
keep_all_locks(dir, workers) == dir

\* _active_locks: the paths acquired by a Worker of this process and not yet released
_active_locks(workers) == UNION {Range(workers[w].locks_acquired) : w \in DOMAIN workers}

\* release_all_locks: release_lock for every path of _active_locks
release_all_locks(dir, workers) ==
    [f \in DOMAIN dir \ {lock_file_of(filepath) : filepath \in _active_locks(workers)} |->
        dir[f]]

CleanupTimeoutSeconds == 300

\* cleanup_stale_locks(timeout): every lock file older than the timeout is removed
cleanup_stale_locks(dir, t, timeout) ==
    [f \in {g \in DOMAIN dir : ~_is_lock_stale(dir, t, g, timeout)} |-> dir[f]]

(***************************************************************************)
(* Spec: main.py, run_main_loop from the initial checkpoint on.  drv.pc is *)
(* the statement the main thread stands at, drv.workers the Workers of the *)
(* current batch and where each stands in run_worker_task.                 *)
(***************************************************************************)
MAX_PARALLEL_WORKERS == 3

\* MAX_RETRIES of config.py, handed to every run(iteration, max_retries)
MAX_RETRIES == 3

\* the values of MAX_ITERATIONS the runs are configured with
IterationLimits == {0, 2}

TaskA == [title |-> "A", priority |-> "high", files |-> <<"a.py">>]

TaskD == [title |-> "D", description |-> <<[form |-> "quoted", path |-> "/a.py"]>>]

TaskF == [title |-> "F", files |-> <<"b.py">>, dependencies |-> <<FormatTaskId(1)>>]

TaskB == [title |-> "B", files |-> <<"b.py">>]

\* a task whose two files are the same file once the paths are normalized
TaskG == [title |-> "G", files |-> <<"a.py", "/a.py">>]

\* what parse_response of the Planner can hand to update_state
PlannerResults ==
    {[new_tasks |-> <<TaskA>>],
     [new_tasks |-> <<TaskA, TaskB>>],
     [new_tasks |-> <<TaskG, TaskB>>],
     [updated_tasks |-> <<[id |-> FormatTaskId(1), status |-> "done"]>>],
     [plan_update |-> "plan A", new_tasks |-> <<TaskA, TaskD>>],
     [new_tasks |-> <<TaskF>>,
      updated_tasks |-> <<[id |-> FormatTaskId(1), priority |-> "low"]>>],
     [updated_tasks |-> <<[id |-> FormatTaskId(1), status |-> "pending"]>>],
     [updated_tasks |-> <<[id |-> FormatTaskId(1), status |-> "completed"]>>]}

JudgeResults == {[should_continue |-> TRUE], [should_continue |-> FALSE]}

\* error is result["error"] of run_worker_task
WorkerIdle == [pc |-> "done", task_files |-> <<>>, locks_acquired |-> <<>>,
               error |-> "none", parsed |-> TRUE]

OtherThanDriver == <<backups, taken, returned, sop, now, lk, sched, rt, uj, ms>>

\* a process starts run_main_loop on the state directory, after the threads of the run
\* before have ended: create_checkpoint("initial")
DStartRun ==
    /\ drv.pc \in {"off", "crashed", "interrupted", "finished"}
    /\ \A w \in DOMAIN drv.workers : drv.workers[w].pc = "done"
    /\ drv.run < MaxRuns
    /\ ckpts' = create_checkpoint(ckpts, store, "initial")
    /\ drv' = [drv EXCEPT !.pc = "iterate", !.run = @ + 1, !.iteration = 0]
    /\ UNCHANGED <<store, lockDir, OtherThanDriver>>

\* iteration += 1; update_status(current_iteration = iteration)
DIterate ==
    /\ drv.pc = "iterate" /\ drv.iteration < drv.max_iterations
    /\ store' = update_status(store, [current_iteration |-> drv.iteration + 1])
    /\ drv' = [drv EXCEPT !.pc = "planner", !.iteration = @ + 1]
    /\ UNCHANGED <<ckpts, lockDir, OtherThanDriver>>

\* the loop condition is false: the final state is printed and run_main_loop returns
DFinish ==
    /\ drv.pc = "iterate" /\ ~(drv.iteration < drv.max_iterations)
    /\ drv' = [drv EXCEPT !.pc = "finished"]
    /\ UNCHANGED <<store, ckpts, lockDir, OtherThanDriver>>

\* planner.run returns: update_state(result) has been applied
DPlannerRuns(result) ==
    /\ drv.pc = "planner" /\ drv.max_retries > 0
    /\ Cardinality(IndexIds(store)) + Len(Get(result, "new_tasks", <<>>)) <= MaxTasks
    /\ store' = planner_update_state(store, result)
    /\ drv' = [drv EXCEPT !.pc = "schedule"]
    /\ UNCHANGED <<ckpts, lockDir, OtherThanDriver>>

\* planner.run raises: the error is logged and the iteration goes on; with max_retries 0
\* it returns None without an attempt and the iteration goes on likewise
DPlannerFails ==
    /\ drv.pc = "planner"
    /\ drv' = [drv EXCEPT !.pc = "schedule"]
    /\ UNCHANGED <<store, ckpts, lockDir, OtherThanDriver>>

\* TaskStatus(data.get("status", "pending")) in Task.from_dict raises ValueError for a
\* value that is no status; get_all_tasks_from_files builds the Task of every index entry
from_dict_raises(s) ==
    \E task_id \in IndexIds(s) :
        Get(_load_task_state(s, task_id), "status", "pending") \notin Statuses

\* get_parallelizable_tasks / get_pending_tasks raise ValueError in the main thread: the
\* except clause of the loop calls release_all_locks and create_checkpoint("error"), and
\* the error is raised again
DScheduleRaises ==
    /\ drv.pc = "schedule" /\ from_dict_raises(store)
    /\ lockDir' = IF drv.parallel THEN release_all_locks(lockDir, drv.workers) ELSE lockDir
    /\ ckpts' = create_checkpoint(ckpts, store, "error")
    /\ drv' = [drv EXCEPT !.pc = "crashed"]
    /\ UNCHANGED <<store, OtherThanDriver>>

\* parallel mode: the batch of get_parallelizable_tasks is submitted to the executor
DScheduleParallel ==
    /\ drv.pc = "schedule" /\ drv.parallel /\ ~from_dict_raises(store)
    /\ LET batch == get_parallelizable_tasks(store, lockDir, now, MAX_PARALLEL_WORKERS) IN
       drv' = [drv EXCEPT
                 !.pc = IF batch = <<>> THEN "judge" ELSE "workers",
                 !.workers = [task_id \in {batch[i].id : i \in DOMAIN batch} |->
                                [pc |-> "locks",
                                 task_files |-> _extract_task_files(
                                     get_task_by_id(store, task_id)),
                                 locks_acquired |-> <<>>, error |-> "none",
                                 parsed |-> TRUE]]]
    /\ UNCHANGED <<store, ckpts, lockDir, OtherThanDriver>>

\* sequential mode: the first pending task, without locks
DScheduleSequential ==
    /\ drv.pc = "schedule" /\ ~drv.parallel /\ ~from_dict_raises(store)
    /\ LET pending_tasks == get_pending_tasks(store) IN
       drv' = [drv EXCEPT
                 !.pc = IF pending_tasks = <<>> THEN "judge" ELSE "workers",
                 !.workers = IF pending_tasks = <<>> THEN EmptyDict
                             ELSE [task_id \in {pending_tasks[1].id} |->
                                     [WorkerIdle EXCEPT !.pc = "assign"]]]
    /\ UNCHANGED <<store, ckpts, lockDir, OtherThanDriver>>

\* the thread of Worker w is alive: during the batch, and after an interrupt of the main
\* thread that did not wait for it
Working(w) == drv.pc \in {"workers", "interrupted"} /\ w \in DOMAIN drv.workers

\* run_worker_task: acquire_lock(filepath, task_id, timeout=10.0) for every task file
WAcquireLocks(w) ==
    /\ Working(w) /\ drv.workers[w].pc = "locks"
    /\ LET got == acquire_locks(lockDir, now, drv.workers[w].task_files, w, <<>>) IN
       /\ lockDir' = got.dir
       /\ drv' = [drv EXCEPT !.workers[w].pc = IF got.ok THEN "assign" ELSE "done",
                             !.workers[w].locks_acquired = got.locks_acquired,
                             !.workers[w].error = IF got.ok THEN "none"
                                                  ELSE "Failed to acquire lock"]
    /\ UNCHANGED <<store, ckpts, OtherThanDriver>>

\* worker.assign_task(task_id); "Failed to assign task" when it answers False
WAssignTask(w) ==
    /\ Working(w) /\ drv.workers[w].pc = "assign"
    /\ IF can_assign(store, w)
       THEN /\ store' = assign_task(store, w, "Worker")
            /\ drv' = [drv EXCEPT !.workers[w].pc = "run"]
       ELSE /\ drv' = [drv EXCEPT !.workers[w].pc = "release",
                                  !.workers[w].error = "Failed to assign task"]
            /\ UNCHANGED store
    /\ UNCHANGED <<ckpts, lockDir, OtherThanDriver>>

\* worker.run raises before update_state (the LLM call fails for good): the except
\* clause of the caller calls fail_task(task_id, str(e))
WRunFails(w) ==
    /\ Working(w) /\ drv.workers[w].pc = "run" /\ drv.max_retries > 0
    /\ store' = fail_task(store, w, "LLM error")
    /\ drv' = [drv EXCEPT !.workers[w].pc = "release", !.workers[w].error = "LLM error"]
    /\ UNCHANGED <<ckpts, lockDir, OtherThanDriver>>

\* WorkerAgent.parse_response: when the parsing raises, the except clause answers the
\* head of the response as the report, with the error
parse_response(task_id, parsed) ==
    IF parsed THEN [report |-> "report", task_id |-> task_id]
    ELSE [report |-> "report", task_id |-> task_id, error |-> "parse error"]

\* the LLM answers, the response is parsed or not, and update_state starts;
\* complete_task first writes results/<id>.md
WWriteResult(w) ==
    /\ Working(w) /\ drv.workers[w].pc = "run" /\ drv.max_retries > 0
    /\ \E parsed \in BOOLEAN :
          /\ store' = save_result(store, w, parse_response(w, parsed).report)
          /\ drv' = [drv EXCEPT !.workers[w].pc = "mark", !.workers[w].parsed = parsed]
    /\ UNCHANGED <<ckpts, lockDir, OtherThanDriver>>

\* complete_task then sets the per-task record to completed
WMarkCompleted(w) ==
    /\ Working(w) /\ drv.workers[w].pc = "mark"
    /\ store' = complete_task_record(store, w, parse_response(w, drv.workers[w].parsed))
    /\ drv' = [drv EXCEPT !.workers[w].pc = "stats"]
    /\ UNCHANGED <<ckpts, lockDir, OtherThanDriver>>

\* update_state goes on to get_task_statistics().get("completed", 0); TaskStatistics has
\* no method get, so AttributeError is raised, run wraps it in an AgentError, and the
\* except clause of the caller calls fail_task(task_id, str(e))
WStatisticsRaise(w) ==
    /\ Working(w) /\ drv.workers[w].pc = "stats"
    /\ store' = fail_task(store, w, "Unexpected error")
    /\ drv' = [drv EXCEPT !.workers[w].pc = "release",
                          !.workers[w].error = "Unexpected error"]
    /\ UNCHANGED <<ckpts, lockDir, OtherThanDriver>>

\* worker.run(max_retries = 0): range(0) is empty, run returns None without an attempt
\* and the caller goes on as after a success
WRunReturnsNone(w) ==
    /\ Working(w) /\ drv.workers[w].pc = "run" /\ drv.max_retries = 0
    /\ drv' = [drv EXCEPT !.workers[w].pc = "release"]
    /\ UNCHANGED <<store, ckpts, lockDir, OtherThanDriver>>

\* release_lock for every lock acquired
WReleaseLocks(w) ==
    /\ Working(w) /\ drv.workers[w].pc = "release"
    /\ lockDir' = release_locks(lockDir, drv.workers[w].locks_acquired)
    /\ drv' = [drv EXCEPT !.workers[w].pc = "done", !.workers[w].locks_acquired = <<>>]
    /\ UNCHANGED <<store, ckpts, OtherThanDriver>>

\* without the wait for the Workers of the batch
batch_not_awaited(workers) == TRUE

\* as_completed(future_to_task) and the exit of the executor block wait for every Worker
\* submitted; in sequential mode worker.run is a call of the main thread
batch_done(workers) == \A w \in DOMAIN workers : workers[w].pc = "done"

\* all futures are done; in parallel mode cleanup_stale_locks(timeout=300.0)
DJoin ==
    /\ drv.pc = "workers"
    /\ batch_done(drv.workers)
    /\ lockDir' = IF drv.parallel THEN cleanup_stale_locks(lockDir, now, CleanupTimeoutSeconds)
                  ELSE lockDir
    /\ drv' = [drv EXCEPT !.pc = "judge"]
    /\ UNCHANGED <<store, ckpts, OtherThanDriver>>

\* judge.run returns: update_state(result) has written the verdict to status.json
DJudgeRuns(result) ==
    /\ drv.pc = "judge" /\ drv.max_retries > 0
    /\ store' = judge_update_state(store, result)
    /\ drv' = [drv EXCEPT !.pc = "decide"]
    /\ UNCHANGED <<ckpts, lockDir, OtherThanDriver>>

\* judge.run raises: the error is logged and the iteration goes on; with max_retries 0
\* it returns None without an attempt
DJudgeFails ==
    /\ drv.pc = "judge"
    /\ drv' = [drv EXCEPT !.pc = "decide"]
    /\ UNCHANGED <<store, ckpts, lockDir, OtherThanDriver>>

\* the continuation test: task_stats["total"] on a TaskStatistics raises TypeError, the
\* except clause of the loop calls release_all_locks and create_checkpoint("error"),
\* and the run ends
DDecide ==
    /\ drv.pc = "decide"
    /\ lockDir' = IF drv.parallel THEN release_all_locks(lockDir, drv.workers) ELSE lockDir
    /\ ckpts' = create_checkpoint(ckpts, store, "error")
    /\ drv' = [drv EXCEPT !.pc = "crashed"]
    /\ UNCHANGED <<store, OtherThanDriver>>

\* KeyboardInterrupt while the sequential Worker is in its LLM call: the except clause of
\* the loop takes the checkpoint "interrupted" and run_main_loop returns
DInterrupt(w) ==
    /\ Working(w) /\ drv.pc = "workers" /\ ~drv.parallel /\ drv.workers[w].pc = "run"
    /\ ckpts' = create_checkpoint(ckpts, store, "interrupted")
    /\ drv' = [drv EXCEPT !.pc = "interrupted", !.workers = EmptyDict]
    /\ UNCHANGED <<store, lockDir, OtherThanDriver>>

\* KeyboardInterrupt in the main thread during the parallel batch: the executor block
\* waits for the Workers unless it is interrupted again, so the except clause runs with
\* the Workers in any position; release_all_locks, then the checkpoint "interrupted"
DInterruptBatch ==
    /\ drv.pc = "workers" /\ drv.parallel
    /\ lockDir' = release_all_locks(lockDir, drv.workers)
    /\ ckpts' = create_checkpoint(ckpts, store, "interrupted")
    /\ drv' = [drv EXCEPT !.pc = "interrupted"]
    /\ UNCHANGED <<store, OtherThanDriver>>

Init ==
    /\ store = FreshStore /\ ckpts = EmptyDict /\ lockDir = EmptyDict
    /\ drv \in {[pc |-> "off", run |-> 0, iteration |-> 0, parallel |-> p,
                 max_iterations |-> n, max_retries |-> MAX_RETRIES,
                 workers |-> EmptyDict] :
                    p \in BOOLEAN, n \in IterationLimits}
    /\ backups = EmptyDict /\ taken = EmptyDict /\ returned = <<>> /\ sop = SopIdle
    /\ now = 0 /\ lk = NoCallers /\ sched = SchedIdle /\ rt = RtIdle /\ uj = NoCallers /\ ms = MsIdle

Next ==
    \/ DStartRun
    \/ DIterate
    \/ DFinish
    \/ \E result \in PlannerResults : DPlannerRuns(result)
    \/ DPlannerFails
    \/ DScheduleRaises
    \/ DScheduleParallel
    \/ DScheduleSequential
    \/ \E w \in AllTaskIds : WAcquireLocks(w)
    \/ \E w \in AllTaskIds : WAssignTask(w)
    \/ \E w \in AllTaskIds : WRunFails(w)
    \/ \E w \in AllTaskIds : WWriteResult(w)
    \/ \E w \in AllTaskIds : WMarkCompleted(w)
    \/ \E w \in AllTaskIds : WStatisticsRaise(w)
    \/ \E w \in AllTaskIds : WReleaseLocks(w)
    \/ DJoin
    \/ \E result \in JudgeResults : DJudgeRuns(result)
    \/ DJudgeFails
    \/ DDecide
    \/ \E w \in AllTaskIds : DInterrupt(w)
    \/ DInterruptBatch

Spec == Init /\ [][Next]_vars

TerminalStatuses == {"completed", "failed"}

\* C2 (terminal statuses are absorbing): once the per-task record of a task has status
\* completed or failed, no step of a driver run changes that status.
C2_TerminalAbsorbing ==
    [][\A task_id \in AllTaskIds :
          PerTaskStatus(store, task_id) \in TerminalStatuses =>
              PerTaskStatus(store', task_id) = PerTaskStatus(store, task_id)]_vars

\* the status changes the driver may make; in_progress -> pending belongs to
\* recover_in_progress_tasks alone, which no step of the driver calls
DriverTransitions ==
    {<<"pending", "in_progress">>, <<"in_progress", "completed">>,
     <<"in_progress", "failed">>}

\* C3 (status transition closure): every change of the status of an existing per-task
\* record is pending -> in_progress, in_progress -> completed or in_progress -> failed.
C3_TransitionClosure ==
    [][\A task_id \in AllTaskIds :
          (/\ PerTaskStatus(store, task_id) # "none"
           /\ PerTaskStatus(store', task_id) # PerTaskStatus(store, task_id))
          => <<PerTaskStatus(store, task_id), PerTaskStatus(store', task_id)>>
                 \in DriverTransitions]_vars

\* results/<id>.md exists and holds the report of the record
ResultMatches(s, task_id) ==
    /\ task_id \in DOMAIN s.results
    /\ "result" \in DOMAIN s.tasks[task_id]
    /\ "report" \in DOMAIN s.tasks[task_id].result
    /\ s.results[task_id] = s.tasks[task_id].result.report

\* C4 (result on complete): a task is completed if and only if results/<id>.md exists
\* and equals the report of its record, and a completed record has a result_file.
C4_ResultOnComplete ==
    \A task_id \in DOMAIN store.tasks :
        /\ PerTaskStatus(store, task_id) = "completed" <=> ResultMatches(store, task_id)
        /\ PerTaskStatus(store, task_id) = "completed" =>
               Get(store.tasks[task_id], "result_file", <<>>) # <<>>

\* the order inside complete_task: a record is set to completed by a Worker only when
\* its result file is already there
C4_ResultWrittenFirst ==
    \A w \in DOMAIN drv.workers :
        drv.workers[w].pc = "stats" => ResultMatches(store, w)

(***************************************************************************)
(* Recovery of interrupted tasks.                                          *)
(***************************************************************************)
Recovering == sop'.op = "recover_in_progress_tasks" /\ sop'.count = sop.count + 1

\* C12 (recovery postcondition): a call of recover_in_progress_tasks leaves no indexed
\* task in_progress; every task whose status it changed is pending, carries recovered_at
\* and recovery_reason and is in the returned list; a task that was pending, completed or
\* failed keeps its status.
C12_RecoveryPostcondition ==
    [][Recovering =>
         \A task_id \in IndexIds(store) :
             /\ StatusOf(store', task_id) # "in_progress"
             /\ StatusOf(store', task_id) # StatusOf(store, task_id) =>
                    /\ StatusOf(store', task_id) = "pending"
                    /\ "recovered_at" \in DOMAIN _load_task_state(store', task_id)
                    /\ "recovery_reason" \in DOMAIN _load_task_state(store', task_id)
                    /\ task_id \in Range(recovered_ids(store))
             /\ StatusOf(store, task_id) # "in_progress" =>
                    StatusOf(store', task_id) = StatusOf(store, task_id)]_vars

\* the same postcondition for the tasks whose per-task record carries its own id
C12_RecoveryOfRecordsWithId ==
    [][Recovering =>
         \A task_id \in IndexIds(store) :
             Get(_load_task_state(store, task_id), "id", <<>>) = task_id =>
                 /\ StatusOf(store', task_id) # "in_progress"
                 /\ StatusOf(store, task_id) # "in_progress" =>
                        StatusOf(store', task_id) = StatusOf(store, task_id)]_vars

\* a run of the driver has just started: the initial checkpoint is taken and iteration 1
\* has not begun
BeforeFirstIteration == drv.pc = "iterate" /\ drv.iteration = 0

\* C11 (startup recovery): when a run of the driver is about to begin iteration 1, no
\* indexed task is in_progress: a task left in_progress by an interrupted run has been
\* reset to pending.
C11_StartupRecovery ==
    BeforeFirstIteration =>
        \A task_id \in IndexIds(store) : StatusOf(store, task_id) # "in_progress"

(***************************************************************************)
(* The phases of an iteration.                                             *)
(***************************************************************************)
\* the main thread is in the Planner phase, at the scheduling point, or in the Judge
\* phase and the continuation test after it
OutsideWorkerPhase == drv.pc \in {"iterate", "planner", "schedule", "judge", "decide"}

\* every Worker submitted in this run has returned
NoWorkerRunning == \A w \in DOMAIN drv.workers : drv.workers[w].pc = "done"

\* a further iteration of the same run begins
NextIterationBegins == drv'.iteration = drv.iteration + 1 /\ drv.iteration >= 1

\* C13 (phase ordering): while the Planner runs, and from the start of the Judge to the
\* end of the iteration, no Worker of the batch is between its start and its end; and a
\* further iteration begins only from the continuation test that follows the Judge, with
\* the checkpoints already written.
C13_PhaseOrdering ==
    /\ [](OutsideWorkerPhase => NoWorkerRunning)
    /\ [][NextIterationBegins => drv.pc = "iterate" /\ ckpts' = ckpts]_vars

\* the Judge is about to start after a batch of two Workers, one of which failed its task
C13_JudgeAfterBatchOfTwo ==
    /\ drv.pc = "judge"
    /\ Cardinality(DOMAIN drv.workers) >= 2
    /\ \E w \in DOMAIN drv.workers : drv.workers[w].error = "LLM error"

\* status.get("should_continue", True)
should_continue(s) == Get(get_status(s), "should_continue", TRUE)

\* C14 (stop signal): the step the driver takes from the continuation test after the
\* Judge ends the run cleanly, with no checkpoint, when status.should_continue is false,
\* and leads to the next iteration when it is true or absent and the iteration limit is
\* not reached.
C14_StopSignal ==
    [][(drv.pc = "decide" /\ drv'.pc # "decide") =>
          IF should_continue(store) = FALSE
          THEN drv'.pc = "finished" /\ ckpts' = ckpts
          ELSE drv.iteration < drv.max_iterations => drv'.pc = "iterate"]_vars

RunEnded == drv.pc \in {"finished", "crashed"}

\* C15 (loop termination): a run that has ended has ended cleanly, no run makes more than
\* MAX_ITERATIONS iterations, and status.current_iteration never exceeds MAX_ITERATIONS.
C15_LoopTermination ==
    /\ RunEnded => drv.pc = "finished"
    /\ drv.iteration <= drv.max_iterations
    /\ Get(get_status(store), "current_iteration", 0) <= drv.max_iterations

\* the bounds of C15 alone
C15_IterationBound ==
    /\ drv.iteration <= drv.max_iterations
    /\ Get(get_status(store), "current_iteration", 0) <= drv.max_iterations

\* C16 (role-error tolerance): whatever the Planner returned or raised, the driver goes
\* on from the scheduling point to the Workers or to the Judge, and whatever the Judge
\* returned or raised it goes on to the continuation test: neither step ends the run
\* with an error.
C16_RoleErrorTolerance ==
    [][/\ drv.pc = "schedule" => drv'.pc \in {"schedule", "workers", "judge"}
       /\ drv.pc = "judge" => drv'.pc \in {"judge", "decide"}]_vars

\* fail_task has just been applied to the task of the Worker w whose run raised
RunRaised(w) ==
    /\ Working(w) /\ drv.workers[w].pc \in {"run", "stats"}
    /\ w \in DOMAIN drv'.workers /\ drv'.workers[w].pc = "release"

\* the failure of one Worker changes the per-task record of no other task and the
\* position of no other Worker
C17_OnlyOwnTaskFailed ==
    [][\A w \in AllTaskIds :
          RunRaised(w) =>
              /\ PerTaskStatus(store', w) = "failed"
              /\ \A u \in (DOMAIN store.tasks \cup DOMAIN store'.tasks) \ {w} :
                    /\ u \in DOMAIN store.tasks /\ u \in DOMAIN store'.tasks
                    /\ store'.tasks[u] = store.tasks[u]
              /\ \A u \in DOMAIN drv.workers \ {w} : drv'.workers[u] = drv.workers[u]]_vars

\* a Worker of the batch just ended failed its task
BatchHadFailure == \E w \in DOMAIN drv.workers : drv.workers[w].error = "LLM error"

\* C17 (worker failure isolation): when the run of one Worker raises, fail_task is applied
\* to its task only, no other per-task record and no other Worker is touched, and after
\* the batch the driver goes on to the Judge and, unless told to stop, to the next
\* iteration.
C17_WorkerFailureIsolation ==
    [][/\ \A w \in AllTaskIds :
             RunRaised(w) =>
                 /\ PerTaskStatus(store', w) = "failed"
                 /\ \A u \in (DOMAIN store.tasks \cup DOMAIN store'.tasks) \ {w} :
                       /\ u \in DOMAIN store.tasks /\ u \in DOMAIN store'.tasks
                       /\ store'.tasks[u] = store.tasks[u]
                 /\ \A u \in DOMAIN drv.workers \ {w} : drv'.workers[u] = drv.workers[u]
       /\ (drv.pc = "workers" /\ drv'.pc # "workers" /\ BatchHadFailure) =>
             drv'.pc = "judge"
       /\ (drv.pc = "decide" /\ drv'.pc # "decide" /\ BatchHadFailure
             /\ should_continue(store) /\ drv.iteration < drv.max_iterations) =>
             drv'.pc = "iterate"]_vars

(***************************************************************************)
(* The file locks of a parallel Worker.                                    *)
(***************************************************************************)
\* the lock files in the lock directory that carry the task id of the Worker w
HeldBy(w) == {f \in DOMAIN lockDir : lockDir[f].task_id = w}

LockFilesOf(task_files) == {lock_file_of(task_files[i]) : i \in DOMAIN task_files}

AcquireFailed(w) == drv.workers[w].error = "Failed to acquire lock"

UpdCallers == {"w1", "w2"}

MaxUpdateCalls == 5

\* max_retries of update_json
UpdateMaxRetries == 5

UjIdle == [pc |-> "idle", attempt |-> 0, version |-> 0, updated_data |-> EmptyDict,
           calls |-> 0, written |-> 0, returned |-> 0, raised |-> 0]

\* what a file holds between open(filepath, 'w'), which empties it, and the end of
\* json.dump: no JSON document; json.load of it raises JSONDecodeError
EmptyFile == [truncated |-> TRUE]

\* update_func of the caller c
update_func(c, data) == Put(data, c, Get(data, c, 0) + 1)

OtherThanUpdate == <<ckpts, backups, taken, returned, sop, lockDir, now, lk, sched, rt, drv,
                     ms>>

\* update_json(filename, update_func) is called: attempt 0 of the for loop
UCall(c) ==
    /\ uj[c].pc = "idle" /\ uj[c].calls < MaxUpdateCalls
    /\ uj' = [uj EXCEPT ![c].pc = "load", ![c].attempt = 0, ![c].calls = @ + 1]
    /\ UNCHANGED <<store, OtherThanUpdate>>

\* current_data = load_json(filename); version; updated_data = update_func(copy) with
\* version + 1
ULoad(c) ==
    /\ uj[c].pc = "load"
    /\ load_json(store, "status.json") # EmptyFile
    /\ LET current_data == load_json(store, "status.json")
           version == Get(current_data, "version", 0)
       IN  uj' = [uj EXCEPT ![c].pc = "check", ![c].version = version,
                            ![c].updated_data =
                                Put(update_func(c, current_data), "version", version + 1)]
    /\ UNCHANGED <<store, OtherThanUpdate>>

\* load_json or the re-read meets a file that is being written: json.load raises, and the
\* outer except clause sleeps and retries, or raises again on the last attempt
UReadRaises(c) ==
    /\ uj[c].pc \in {"load", "check"}
    /\ load_json(store, "status.json") = EmptyFile
    /\ IF uj[c].attempt < UpdateMaxRetries - 1
       THEN uj' = [uj EXCEPT ![c].pc = "load", ![c].attempt = @ + 1]
       ELSE uj' = [uj EXCEPT ![c].pc = "idle", ![c].raised = @ + 1]
    /\ UNCHANGED <<store, OtherThanUpdate>>

\* the re-read: on a version other than the one read, sleep and retry, or RuntimeError
\* on the last attempt, which the outer except clause raises again
UCheck(c) ==
    /\ uj[c].pc = "check"
    /\ load_json(store, "status.json") # EmptyFile
    /\ IF "status.json" \in store.files
          /\ Get(store.json["status.json"], "version", 0) # uj[c].version
       THEN IF uj[c].attempt < UpdateMaxRetries - 1
            THEN uj' = [uj EXCEPT ![c].pc = "load", ![c].attempt = @ + 1]
            ELSE uj' = [uj EXCEPT ![c].pc = "idle", ![c].raised = @ + 1]
       ELSE uj' = [uj EXCEPT ![c].pc = "open"]
    /\ UNCHANGED <<store, OtherThanUpdate>>

\* open(filepath, 'w'): the file is there and empty
UOpen(c) ==
    /\ uj[c].pc = "open"
    /\ store' = save_json(store, "status.json", EmptyFile)
    /\ uj' = [uj EXCEPT ![c].pc = "write"]
    /\ UNCHANGED OtherThanUpdate

\* json.dump(updated_data) into the file, flush, fsync; return updated_data
UWrite(c) ==
    /\ uj[c].pc = "write"
    /\ store' = save_json(store, "status.json", uj[c].updated_data)
    /\ uj' = [uj EXCEPT ![c].pc = "idle", ![c].written = @ + 1, ![c].returned = @ + 1]
    /\ UNCHANGED OtherThanUpdate

InitUpdate ==
    /\ store \in {FreshStore, update_status(FreshStore, [current_iteration |-> 1])}
    /\ uj = [c \in UpdCallers |-> UjIdle]
    /\ ckpts = EmptyDict /\ backups = EmptyDict
    /\ taken = EmptyDict /\ returned = <<>> /\ sop = SopIdle
    /\ lockDir = EmptyDict /\ now = 0 /\ lk = NoCallers
    /\ sched = SchedIdle /\ rt = RtIdle /\ drv = DrvIdle /\ ms = MsIdle

NextUpdate ==
    \/ \E c \in UpdCallers : UCall(c)
    \/ \E c \in UpdCallers : ULoad(c)
    \/ \E c \in UpdCallers : UReadRaises(c)
    \/ \E c \in UpdCallers : UCheck(c)
    \/ \E c \in UpdCallers : UOpen(c)
    \/ \E c \in UpdCallers : UWrite(c)

SpecUpdate == InitUpdate /\ [][NextUpdate]_vars

\* the version the file had before the first call
InitialVersion == IF "last_updated" \in DOMAIN load_json(store, "status.json") THEN 1 ELSE 0

RECURSIVE SumOver(_, _)
SumOver(f, S) == IF S = {} THEN 0
                 ELSE LET x == CHOOSE y \in S : TRUE IN f[x] + SumOver(f, S \ {x})

Successes == SumOver([c \in UpdCallers |-> uj[c].returned], UpdCallers)

\* C20 (optimistic update without lost writes): with concurrent callers the version of
\* the file has grown by exactly the number of update_json calls that have returned, the
\* document holds the count of every caller's returned calls, and a call that raised
\* has written nothing (read whenever the file is not in the middle of a write).
C20_NoLostUpdate ==
    load_json(store, "status.json") # EmptyFile =>
        /\ Get(load_json(store, "status.json"), "version", 0) = InitialVersion + Successes
        /\ \A c \in UpdCallers :
              /\ Get(load_json(store, "status.json"), c, 0) = uj[c].returned
              /\ uj[c].written = uj[c].returned

\* each write carries the version read plus one, an absent file read as version 0, and a
\* call that gives up after the fifth conflicting re-read has left the file alone
C20_VersionStepAndGiveUp ==
    [][\A c \in UpdCallers :
          /\ (uj[c].pc = "write" /\ uj'[c].pc = "idle") =>
                Get(load_json(store', "status.json"), "version", 0) = uj[c].version + 1
          /\ uj'[c].raised > uj[c].raised =>
                store' = store /\ uj[c].attempt = UpdateMaxRetries - 1]_vars

\* a caller gave up after five conflicting re-reads
C20_GaveUpAfterFiveAttempts == \E c \in UpdCallers : uj[c].raised >= 1

\* C21 (atomic replacement): at every instant, so for a concurrent reader and for a crash
\* at any point, a state document that exists holds a complete JSON document, the old
\* one or the new one, never the empty or partly written file.
C21_AtomicReplacement ==
    \A n \in JsonFiles : n \in store.files => store.json[n] # EmptyFile

\* ---- C22: the write set of a Worker
\* A step that writes status.json
StatusWritten == load_json(store', "status.json") # load_json(store, "status.json")

\* A step that writes the index tasks.json
IndexWritten == load_json(store', "tasks.json") # load_json(store, "tasks.json")

BatchSlotsDistinct ==
    LET batch == get_parallelizable_tasks(store, lockDir, now, MAX_PARALLEL_WORKERS) IN
    \A i, j \in DOMAIN batch : batch[i].id = batch[j].id => i = j

\* The step in which WorkerAgent.assign_task accepts task w
AssignAccepted(w) ==
    /\ Working(w) /\ drv.workers[w].pc = "assign"
    /\ w \in DOMAIN drv'.workers /\ drv'.workers[w].pc = "run"

\* The step writes the per-task record of task_id
RecordWritten(task_id) == _load_task_state(store', task_id) # _load_task_state(store, task_id)

\* C23: the batch holds every task at most once; the tasks handed to Workers are pending
\* when the batch is formed (so none is in_progress); assign_task accepts a task only
\* while it is pending; and during the batch the record of a task is written only by
\* the Worker of that task, one record in a step.
C23_SingleWriterPerTask ==
    /\ [](drv.pc = "schedule" /\ ~from_dict_raises(store) => BatchSlotsDistinct)
    /\ [][/\ drv.pc = "schedule" /\ drv'.pc = "workers" =>
                \A w \in DOMAIN drv'.workers : StatusOf(store, w) = "pending"
          /\ \A w \in AllTaskIds : AssignAccepted(w) => StatusOf(store, w) = "pending"
          /\ drv.pc = "workers" =>
                \A a, b \in AllTaskIds :
                    RecordWritten(a) /\ RecordWritten(b) =>
                        /\ a = b
                        /\ a \in DOMAIN drv.workers
                        /\ drv.workers[a].pc \in {"assign", "run", "mark", "stats"}]_vars

\* C23 witness: a second run forms a batch while a task interrupted in the first run is
\* still in_progress, and that task is in no slot
C23_InProgressTaskNotScheduled ==
    /\ drv.pc = "workers" /\ DOMAIN drv.workers # {}
    /\ \E task_id \in IndexIds(store) :
          StatusOf(store, task_id) = "in_progress" /\ task_id \notin DOMAIN drv.workers

\* ---- C24: the exits of the loop on an interrupt and on an error
\* The except clause for KeyboardInterrupt has run in this step
InterruptExit == drv.pc # "interrupted" /\ drv'.pc = "interrupted"

\* The except clause for Exception has run in this step
ErrorExit == drv.pc # "crashed" /\ drv'.pc = "crashed"

\* The lock files written by the Workers of this process
ProcessLocks(dir) == {f \in DOMAIN dir : dir[f].task_id \in DOMAIN drv.workers}

\* The checkpoint of the name holds the live files as they are
CheckpointOfLiveState(cks, checkpoint_name) ==
    /\ checkpoint_name \in DOMAIN cks
    /\ cks[checkpoint_name].tasks = store.tasks
    /\ cks[checkpoint_name].results = store.results
    /\ store.files \subseteq cks[checkpoint_name].files
    /\ \A n \in store.files \cap JsonFiles : cks[checkpoint_name].json[n] = store.json[n]
    /\ "plan.md" \in store.files => cks[checkpoint_name].plan = store.plan

\* C24: the step that leaves the loop on an interrupt leaves no lock file of a Worker of
\* the process, has taken the checkpoint "interrupted" of the live state and ends the run
\* as returned; the step that leaves it on another exception does the same with the
\* checkpoint "error" and ends the run as raised; neither changes a live state file.
C24_InterruptAndErrorExit ==
    [][/\ InterruptExit =>
            /\ ProcessLocks(lockDir') = {}
            /\ CheckpointOfLiveState(ckpts', "interrupted")
            /\ store' = store
       /\ ErrorExit =>
            /\ ProcessLocks(lockDir') = {}
            /\ CheckpointOfLiveState(ckpts', "error")
            /\ store' = store]_vars

\* C24 witness: the interrupt came while a Worker of the batch was in its LLM call with
\* its locks taken, and the lock files are gone
C24_InterruptedWhileLocksHeld ==
    /\ drv.pc = "interrupted" /\ drv.parallel
    /\ \E w \in DOMAIN drv.workers :
          /\ drv.workers[w].pc = "run" /\ drv.workers[w].locks_acquired # <<>>
          /\ HeldBy(w) = {}

\* ---- C25: a response that cannot be parsed
\* update_state of Worker w has marked the task, after a response that was not parsed
MarkedAfterParseFailure(w) ==
    ~drv.workers[w].parsed /\ drv.workers[w].pc \in {"stats", "release", "done"}

\* C25: a task whose Worker could not parse the response is never marked completed, and
\* once the Worker has ended it is failed with the parse error.
C25_ParseFailureHandling ==
    \A w \in DOMAIN drv.workers :
        MarkedAfterParseFailure(w) =>
            /\ StatusOf(store, w) # "completed"
            /\ drv.workers[w].pc \in {"release", "done"} =>
                  /\ StatusOf(store, w) = "failed"
                  /\ Get(_load_task_state(store, w), "error", "none") = "parse error"

\* ---- C26: the index and the per-task records
\* C26: every id of the index is answered by get_task_by_id with a task of that id, and
\* the tasks of get_all_tasks_from_files and of get_pending_tasks carry ids of the index.
C26_IndexRecordConsistency ==
    /\ \A task_id \in IndexIds(store) : get_task_by_id(store, task_id).id = task_id
    /\ \A i \in DOMAIN get_all_tasks_from_files(store) :
          get_all_tasks_from_files(store)[i].id \in IndexIds(store)
    /\ \A i \in DOMAIN get_pending_tasks(store) :
          get_pending_tasks(store)[i].id \in IndexIds(store)

\* ---- C27: the backup before a restore
\* restore_checkpoint(checkpoint_name) has been called in this step
Restoring == sop'.op = "restore_checkpoint" /\ sop'.count = sop.count + 1

\* The names pre_restore_<timestamp>
PreRestoreNames == {pre_restore_name(t) : t \in 0..MaxClock}

\* C27: a restore_checkpoint that returns leaves under the backup root a backup
\* pre_restore_<timestamp> equal to the live state as it was before the call, file by
\* file; one that raises for a missing checkpoint changes neither the backups nor the
\* live state; and the live state changes in no other way.
C27_PreRestoreBackup ==
    [][Restoring =>
          IF sop'.ok
          THEN \E backup_name \in PreRestoreNames :
                  /\ backup_name \in DOMAIN backups'
                  /\ backups'[backup_name] = store
          ELSE backups' = backups /\ store' = store]_vars

\* C27 witness: a restore has replaced live files, and the backup holds what the live
\* state no longer does
C27_RestoredOverChangedState ==
    /\ sop.op = "restore_checkpoint" /\ sop.ok
    /\ \E backup_name \in PreRestoreNames \cap DOMAIN backups :
          /\ backups[backup_name].tasks # store.tasks
          /\ backups[backup_name].json # store.json

\* ---- C28: ids across a restore
\* add_task has been called in this step; the id it returns is next_id of the state before
Adding == sop'.op = "add_task" /\ sop'.count = sop.count + 1

\* The ids in the index of a backup: each was returned by an add_task before the restore
\* that made the backup
IdsOfBackup(backup_name) ==
    LET tasks == get_tasks_file(backups[backup_name]).tasks IN
    {tasks[i].id : i \in DOMAIN tasks}

\* C28: the id an add_task returns was returned by no add_task before it, also not by
\* one whose index entry a restore_checkpoint has since taken out of the live index.
C28_IdsNeverReused ==
    [][Adding => \A backup_name \in DOMAIN backups :
                     next_id(store) \notin IdsOfBackup(backup_name)]_vars

\* ---- C29: the order of the selection
\* The ready tasks: pending tasks of the index whose dependencies are all completed
ReadyTasks(s) ==
    {get_task_by_id(s, task_id) : task_id \in
        {x \in IndexIds(s) :
            /\ StatusOf(s, x) = "pending"
            /\ \A d \in Range(get_task_by_id(s, x).dependencies) :
                  d \in IndexIds(s) /\ StatusOf(s, d) = "completed"}}

\* high = 3, medium = 2, low = 1
ReferenceScore(task) ==
    IF task.priority = "high" THEN 3 ELSE IF task.priority = "low" THEN 1 ELSE 2

\* The candidate to visit first: highest priority, the earliest created among equals
FirstCandidate(candidates) ==
    CHOOSE task \in candidates :
        \A other \in candidates :
            \/ ReferenceScore(task) > ReferenceScore(other)
            \/ /\ ReferenceScore(task) = ReferenceScore(other)
               /\ TaskNumber(task.id) <= TaskNumber(other.id)

\* The greedy reference selection of at most k tasks: the candidates are visited in
\* that order and one is accepted iff none of its files is locked or reserved
RECURSIVE ReferenceSelection(_, _, _, _, _, _)
ReferenceSelection(candidates, accepted, reserved, k, dir, t) ==
    IF candidates = {} \/ Len(accepted) >= k THEN accepted
    ELSE LET task == FirstCandidate(candidates)
             task_files == Range(_extract_task_files(task))
             free == \A f \in task_files : f \notin reserved /\ ~is_locked(dir, t, f)
         IN  ReferenceSelection(candidates \ {task},
                                IF free THEN Append(accepted, task) ELSE accepted,
                                IF free THEN reserved \cup task_files ELSE reserved,
                                k, dir, t)

\* A(high, src/a.py), B(medium, src/a.py), C(high, src/b.py), added in this order
ExampleStore ==
    add_task(add_task(add_task(FreshStore,
        [title |-> "A", priority |-> "high", files |-> <<"src/a.py">>]),
        [title |-> "B", priority |-> "medium", files |-> <<"src/a.py">>]),
        [title |-> "C", priority |-> "high", files |-> <<"src/b.py">>])

\* the ids of get_parallelizable_tasks(2) on the example are those of A and C
ExampleGivesAC ==
    LET batch == get_parallelizable_tasks(ExampleStore, EmptyDict, 0, 2) IN
    [i \in DOMAIN batch |-> batch[i].id] = <<FormatTaskId(1), FormatTaskId(3)>>

\* C29: for every k the batch of get_parallelizable_tasks(k) is the greedy reference
\* selection of at most k tasks (descending priority, ties in creation order, a task
\* accepted iff none of its files is locked or reserved by a task accepted before it),
\* and the example of A, B, C with k = 2 gives [A, C].
C29_SelectionOrder ==
    /\ ExampleGivesAC
    /\ sched.called =>
          sched.batch = ReferenceSelection(ReadyTasks(store), <<>>, {}, sched.max_workers,
                                           lockDir, now)

\* the same for k >= 1
C29_SelectionOrderFromOne ==
    /\ ExampleGivesAC
    /\ (sched.called /\ sched.max_workers >= 1) =>
          sched.batch = ReferenceSelection(ReadyTasks(store), <<>>, {}, sched.max_workers,
                                           lockDir, now)

(***************************************************************************)
(* SpecPlan: the planning phase of an iteration with the Plan-Judge.  The  *)
(* driver that runs PlanJudgeAgent (runner/loop.py) is not among the       *)
(* sources; its loop is written here from the specification of the system, *)
(* around the roles as the sources have them.                              *)
(***************************************************************************)
MAX_PLAN_REVISIONS == 3

MaxPlanIterations == 3

\* what the Planner answers in a round
PlanRoundResults ==
    {[plan_update |-> "plan A"],
     [plan_update |-> "plan B", new_tasks |-> <<TaskA>>],
     [new_tasks |-> <<TaskB>>]}

\* what PlanJudgeAgent.parse_response hands over: a verdict, or a JSON object without
\* the key decision
PlanJudgeResults ==
    {[decision |-> "accept", score |-> 9], [decision |-> "revise", score |-> 3],
     [score |-> 5]}

\* PlanJudgeAgent.update_state without the write of the verdict
plan_judge_update_nothing(s, result) == s

\* PlanJudgeAgent.update_state(result)
plan_judge_update_state(s, result) ==
    update_status(s, [last_plan_judge_run |-> TRUE,
                      last_plan_judge_feedback |-> result,
                      last_plan_judge_decision |-> Get(result, "decision", "accept"),
                      last_plan_judge_score |-> Get(result, "score", 5)])

PlanIdle == [pc |-> "iterate", iteration |-> 0, revisions |-> 0]

\* iteration += 1; update_status(current_iteration = iteration); the count of the
\* rounds starts again
PIterate ==
    /\ drv.pc \in {"iterate", "workers"}
    /\ drv.iteration < MaxPlanIterations
    /\ store' = update_status(store, [current_iteration |-> drv.iteration + 1])
    /\ drv' = [pc |-> "planner", iteration |-> drv.iteration + 1, revisions |-> 0]
    /\ UNCHANGED <<ckpts, lockDir, OtherThanDriver>>

\* planner.run returns
PPlannerRuns(result) ==
    /\ drv.pc = "planner"
    /\ Cardinality(IndexIds(store)) + Len(Get(result, "new_tasks", <<>>)) <= MaxTasks
    /\ store' = planner_update_state(store, result)
    /\ drv' = [drv EXCEPT !.pc = "plan_judge"]
    /\ UNCHANGED <<ckpts, lockDir, OtherThanDriver>>

\* plan_judge.run returns; the driver reads the decision: accept goes on to the Worker
\* batch, revise goes back to the Planner, and after MAX_PLAN_REVISIONS rounds to the
\* fatal error
PPlanJudgeRuns(result) ==
    /\ drv.pc = "plan_judge"
    /\ store' = plan_judge_update_state(store, result)
    /\ drv' = [drv EXCEPT
                 !.revisions = @ + 1,
                 !.pc = IF Get(result, "decision", "accept") = "accept" THEN "workers"
                        ELSE IF drv.revisions + 1 >= MAX_PLAN_REVISIONS THEN "fatal"
                        ELSE "planner"]
    /\ UNCHANGED <<ckpts, lockDir, OtherThanDriver>>

InitPlan ==
    /\ store = FreshStore /\ drv = PlanIdle
    /\ ckpts = EmptyDict /\ lockDir = EmptyDict
    /\ backups = EmptyDict /\ taken = EmptyDict /\ returned = <<>> /\ sop = SopIdle
    /\ now = 0 /\ lk = NoCallers /\ sched = SchedIdle /\ rt = RtIdle /\ uj = NoCallers /\ ms = MsIdle

NextPlan ==
    \/ PIterate
    \/ \E result \in PlanRoundResults : PPlannerRuns(result)
    \/ \E result \in PlanJudgeResults : PPlanJudgeRuns(result)

SpecPlan == InitPlan /\ [][NextPlan]_vars

\* The verdict of the Plan-Judge as status.json has it
RecordedDecision == Get(get_status(store), "last_plan_judge_decision", "none")

WorkerIds == {"test_worker", "worker"}

ErrorTexts == {"Test error", "Failed to acquire lock"}

\* the last call together with the worker id or error text it was given
CalledWith(op, name, arg) ==
    sop' = [op |-> op, name |-> name, ok |-> TRUE, count |-> sop.count + 1, arg |-> arg]

TAssignTask(task_id, worker_id) ==
    /\ sop.count < MaxOps
    /\ store' = assign_task(store, task_id, worker_id)
    /\ CalledWith("assign_task", task_id, worker_id)
    /\ UNCHANGED <<ckpts, backups, taken, returned, OtherThanStore>>

TFailTask(task_id, error) ==
    /\ sop.count < MaxOps
    /\ store' = fail_task(store, task_id, error)
    /\ CalledWith("fail_task", task_id, error)
    /\ UNCHANGED <<ckpts, backups, taken, returned, OtherThanStore>>

NextTasks ==
    \/ \E task \in StoreTaskInputs : SAddTask(task)
    \/ \E task_id \in StoreTaskIds, worker_id \in WorkerIds : TAssignTask(task_id, worker_id)
    \/ \E task_id \in StoreTaskIds, error \in ErrorTexts : TFailTask(task_id, error)
    \/ \E task_id \in StoreTaskIds, result \in Reports : SCompleteTask(task_id, result)
    \/ SRecover

SpecTasks == InitStore /\ [][NextTasks]_vars

\* C31 (fail_task and assign_task postconditions): right after fail_task(id, error) on
\* an indexed task, get_task_by_id(id) is failed, has failed_at set and carries the given
\* error; right after assign_task(id, w) on an indexed task it is in_progress and
\* assigned to w.
C31_FailAndAssignPostconditions ==
    /\ (sop.op = "fail_task" /\ HasIndex(store, sop.name)) =>
           LET task == get_task_by_id(store, sop.name) IN
           /\ task.found
           /\ task.status = "failed"
           /\ task.failed_at = TRUE
           /\ task.error = sop.arg
    /\ (sop.op = "assign_task" /\ HasIndex(store, sop.name)) =>
           LET task == get_task_by_id(store, sop.name) IN
           /\ task.found
           /\ task.status = "in_progress"
           /\ task.assigned_to = sop.arg

\* C31 witness: a task that add_task returned was failed without ever being assigned
C31_FailedFreshTask ==
    /\ sop.op = "fail_task"
    /\ HasIndex(store, sop.name)
    /\ \E i \in DOMAIN returned : returned[i].id = sop.name
    /\ "assigned_to" \notin DOMAIN _load_task_state(store, sop.name)
    /\ get_task_by_id(store, sop.name).error = "Test error"

\* caller c removes lock_file in this step as the stale lock of its acquire_lock
UnlinksAsStale(c, lock_file) ==
    /\ lk[c].pc = "unlink"
    /\ lock_file_of(lk[c].filepath) = lock_file
    /\ lock_file \in DOMAIN lockDir
    /\ lock_file \notin DOMAIN lockDir'

\* C32 (acquire semantics): an acquirer unlinks an existing lock file only when the file is
\* older than the 30 s acquire-time threshold, whatever timeout the acquirer was called
\* with; a lock younger than that is never unlinked by another acquirer.
C32_YoungLockNeverUnlinked ==
    [][\A c \in LockCallers, lock_file \in DOMAIN lockDir :
          UnlinksAsStale(c, lock_file) => now - lockDir[lock_file].mtime > DefaultLockTimeout]_vars

(***************************************************************************)
(* SpecLockFair: SpecLock with the scheduling of the acquire loop: a       *)
(* thread inside acquire_lock keeps running its loop (the os.open, the     *)
(* stale check, the unlink).  Nothing makes a holder release, a caller     *)
(* call, or the clock of the model advance.                                *)
(***************************************************************************)
SpecLockFair ==
    /\ InitLock
    /\ [][NextLock]_vars
    /\ \A c \in LockCallers :
          WF_vars(LTryCreate(c)) /\ WF_vars(LCheckStale(c)) /\ WF_vars(LUnlinkStale(c))

\* the lock file of filepath is there and older than the 30 s of is_locked
AbandonedLock(filepath) ==
    /\ lock_file_of(filepath) \in DOMAIN lockDir
    /\ now - lockDir[lock_file_of(filepath)].mtime > IsLockedTimeout

\* caller c takes a step of its acquire_lock
AcquireStep(c) == lk'[c] # lk[c] /\ lk[c].pc \in {"loop", "exists", "unlink"}

\* C33 (stale lock reclamation): a lock file that is never released does not block its
\* path forever: once it is older than the threshold is_locked answers false; an
\* acquirer that meets it finds it stale and removes it, so the file does not stay; and
\* an acquirer that then finds the path free within its timeout gets the lock.
C33_StaleLockReclamation ==
    /\ [](\A filepath \in LockPaths : AbandonedLock(filepath) => ~is_locked(lockDir, now, filepath))
    /\ [][\A c \in LockCallers :
            /\ (lk[c].pc = "exists" /\ AbandonedLock(lk[c].filepath) /\ AcquireStep(c))
                   => lk'[c].pc = "unlink"
            /\ (lk[c].pc = "unlink" /\ AcquireStep(c))
                   => lock_file_of(lk[c].filepath) \notin DOMAIN lockDir'
            /\ (lk[c].pc = "loop" /\ AcquireStep(c)
                  /\ lock_file_of(lk[c].filepath) \notin DOMAIN lockDir
                  /\ now - lk[c].start_time < lk[c].timeout)
                   => (lk'[c].pc = "held" /\ lk'[c].result = "True"
                       /\ lockDir'[lock_file_of(lk[c].filepath)].task_id = c)]_vars
    /\ \A c \in LockCallers :
          (lk[c].pc = "exists" /\ AbandonedLock(lk[c].filepath))
              ~> ~AbandonedLock(lk[c].filepath)

\* C33 witness: task_A acquired a.py at the start and never released it; task_B called
\* acquire_lock when that lock was older than 30 s and now owns the lock file
C33_ReclaimedFromSilentHolder ==
    /\ lk["task_A"].pc = "held" /\ lk["task_A"].start_time = 0
    /\ lk["task_A"].timeout = WorkerLockTimeout
    /\ lk["task_B"].pc = "held" /\ lk["task_B"].start_time = MaxClock
    /\ lk["task_B"].timeout = DefaultLockTimeout
    /\ lock_file_of(lk["task_A"].filepath) = lock_file_of(lk["task_B"].filepath)
    /\ lockDir[lock_file_of(lk["task_B"].filepath)].task_id = "task_B"

(***************************************************************************)
(* SpecRecover: the driver's use of checkpoints and backups                *)
(* (create_checkpoint() and create_backup() with their timestamp names)    *)
(* around changes of the live state, and recover_from_corruption.          *)
(***************************************************************************)
MaxRecoverSeconds == 2   \* SpecRecover: the clock runs from 0 to this many seconds

\* f"checkpoint_{datetime.now().strftime('%Y%m%d_%H%M%S')}"
checkpoint_name(t) == <<"checkpoint_", t>>

\* f"backup_{datetime.now().strftime('%Y%m%d_%H%M%S')}"
backup_name(t) == <<"backup_", t>>

\* metadata.json created_at of a checkpoint with a timestamp name: the second it was written
created_at(name) == name[2]

\* st_mtime of a backup directory with a timestamp name: the second it was filled
st_mtime(name) == name[2]

\* list_checkpoints()[0]: the checkpoint with the greatest created_at
latest_checkpoint(cks) ==
    CHOOSE c \in DOMAIN cks : \A d \in DOMAIN cks : created_at(d) <= created_at(c)

\* what sorted(backup_dir.iterdir(), key=st_mtime, reverse=True)[0] can be: directories
\* of one second keep the order iterdir gave them
latest_backups(bks) == {b \in DOMAIN bks : \A d \in DOMAIN bks : st_mtime(d) <= st_mtime(b)}

\* the backup loop of recover_from_corruption: the files with suffix .json or .md are
\* copied over the live ones, the directory results replaces the live one; every other
\* directory of the backup (tasks) is passed over
restore_backup_files(s, backup) ==
    [files |-> s.files \cup backup.files,
     plan |-> IF "plan.md" \in backup.files THEN backup.plan ELSE s.plan,
     json |-> [n \in JsonFiles |-> IF n \in backup.files THEN backup.json[n] ELSE s.json[n]],
     tasks |-> s.tasks,
     results |-> backup.results]

\* where restore_checkpoint raises inside its try block (an I/O error): nowhere, in
\* create_backup before the backup directory is made, or at the first copy from the
\* checkpoint, after the pre-restore backup was written
RestoreFaults == {"none", "create_backup", "copy"}

\* the backup root after the restore_checkpoint call of recover_from_corruption
backups_after_restore(bks, s, cks, t, fault) ==
    IF cks # EmptyDict /\ fault \in {"none", "copy"}
    THEN create_backup(bks, s, pre_restore_name(t))
    ELSE bks

RecoverCalled(ok, from, name, fault) ==
    sop' = [op |-> "recover_from_corruption", name |-> name, ok |-> ok,
            count |-> sop.count + 1, from |-> from, fault |-> fault,
            before |-> [store |-> store, ckpts |-> ckpts, backups |-> backups]]

\* create_checkpoint() at the end of an iteration
RCreateCheckpoint ==
    /\ sop.count < MaxOps
    /\ ckpts' = create_checkpoint(ckpts, store, checkpoint_name(now))
    /\ Called("create_checkpoint", "none", TRUE)
    /\ UNCHANGED <<store, backups, taken, returned, OtherThanStore>>

\* create_backup() every fifth iteration
RCreateBackup ==
    /\ sop.count < MaxOps
    /\ backups' = create_backup(backups, store, backup_name(now))
    /\ Called("create_backup", "none", TRUE)
    /\ UNCHANGED <<store, ckpts, taken, returned, OtherThanStore>>

RTick ==
    /\ now < MaxRecoverSeconds
    /\ now' = now + 1
    /\ UNCHANGED <<storeVars, lockDir, lk, sched, rt, uj, drv, ms>>

\* recover_from_corruption()
RRecover(fault) ==
    /\ sop.count < MaxOps
    /\ LET after_restore == backups_after_restore(backups, store, ckpts, now, fault) IN
       /\ backups' = after_restore
       /\ IF ckpts # EmptyDict /\ fault = "none"
          THEN /\ store' = restore_checkpoint(store, ckpts, latest_checkpoint(ckpts))
               /\ RecoverCalled(TRUE, "checkpoint", latest_checkpoint(ckpts), fault)
          ELSE IF after_restore # EmptyDict
          THEN \E latest_backup \in latest_backups(after_restore) :
                  /\ store' = restore_backup_files(store, after_restore[latest_backup])
                  /\ RecoverCalled(TRUE, "backup", latest_backup, fault)
          ELSE /\ store' = store
               /\ RecoverCalled(FALSE, "nothing", "none", fault)
    /\ UNCHANGED <<ckpts, taken, returned, lockDir, now, lk, sched, rt, uj, drv, ms>>

NextRecover ==
    \/ \E task \in StoreTaskInputs : SAddTask(task)
    \/ \E task_id \in StoreTaskIds, error \in ErrorTexts : TFailTask(task_id, error)
    \/ RCreateCheckpoint
    \/ RCreateBackup
    \/ RTick
    \/ \E fault \in RestoreFaults : RRecover(fault)

SpecRecover == InitStore /\ [][NextRecover]_vars

\* the live plan, index, status, per-task files and results are those of the snapshot
SameState(s, snapshot) ==
    /\ load_text(s) = load_text(snapshot)
    /\ \A n \in JsonFiles : load_json(s, n) = load_json(snapshot, n)
    /\ s.tasks = snapshot.tasks
    /\ s.results = snapshot.results

\* C34 (corruption recovery order): recover_from_corruption restores the newest
\* checkpoint; only if that restore fails, the newest backup that existed when the call
\* began; it returns True iff one of the two replaced the live plan, index, status,
\* per-task files and results by those of that one snapshot, and it returns False and
\* leaves the live state alone when there is neither a checkpoint nor a backup.
C34_RecoveryOrder ==
    sop.op = "recover_from_corruption" =>
        LET before == sop.before
            restored == before.ckpts # EmptyDict /\ sop.fault = "none"
        IN  /\ restored =>
                  /\ sop.ok /\ sop.from = "checkpoint"
                  /\ sop.name = latest_checkpoint(before.ckpts)
                  /\ SameState(store, before.ckpts[sop.name])
            /\ (~restored /\ before.backups # EmptyDict) =>
                  /\ sop.ok /\ sop.from = "backup"
                  /\ sop.name \in latest_backups(before.backups)
                  /\ SameState(store, before.backups[sop.name])
            /\ (~restored /\ before.backups = EmptyDict) =>
                  /\ ~sop.ok
                  /\ store = before.store

(***************************************************************************)
(* SpecAnyRetries: run_main_loop with MAX_RETRIES 0 as well as the default *)
(* 3, started on an empty state directory or on one an earlier run left    *)
(* two pending tasks in.                                                   *)
(***************************************************************************)
RetryLimits == {0, MAX_RETRIES}

\* the state directory after a Planner added TaskA and TaskB
SeededStore == planner_update_state(FreshStore, [new_tasks |-> <<TaskA, TaskB>>])

InitAnyRetries ==
    /\ store \in {FreshStore, SeededStore}
    /\ ckpts = EmptyDict /\ lockDir = EmptyDict
    /\ drv \in {[pc |-> "off", run |-> 0, iteration |-> 0, parallel |-> p,
                 max_iterations |-> m, max_retries |-> n, workers |-> EmptyDict] :
                    p \in BOOLEAN, m \in IterationLimits, n \in RetryLimits}
    /\ backups = EmptyDict /\ taken = EmptyDict /\ returned = <<>> /\ sop = SopIdle
    /\ now = 0 /\ lk = NoCallers /\ sched = SchedIdle /\ rt = RtIdle /\ uj = NoCallers /\ ms = MsIdle

NextAnyRetries ==
    \/ Next
    \/ \E w \in AllTaskIds : WRunReturnsNone(w)

SpecAnyRetries == InitAnyRetries /\ [][NextAnyRetries]_vars

\* the Worker phase of the iteration has ended: the batch is joined, or the sequential
\* Worker has returned
WorkerPhaseEnded == drv.pc \in {"judge", "decide"}

\* the tasks of the phase that assign_task accepted
AssignedInPhase == {w \in DOMAIN drv.workers : drv.workers[w].error # "Failed to acquire lock"
                                               /\ drv.workers[w].error # "Failed to assign task"}

\* C35 (no task left in_progress by a Worker phase): when the Worker phase of an
\* iteration has ended, every task assigned during the phase is completed or failed and
\* none is in_progress, for every MAX_RETRIES >= 0.
C35_NoTaskLeftInProgress ==
    WorkerPhaseEnded =>
        \A w \in AssignedInPhase : StatusOf(store, w) \in {"completed", "failed"}

\* the dependencies of the per-task record of task_id
DependenciesOf(s, task_id) == Range(Get(_load_task_state(s, task_id), "dependencies", <<>>))

\* task_id goes from pending to in_progress in this step
BecomesInProgress(task_id) ==
    /\ HasIndex(store, task_id)
    /\ get_task_by_id(store, task_id).status = "pending"
    /\ get_task_by_id(store', task_id).status = "in_progress"

\* C36 (dependencies respected in both modes): no task goes from pending to in_progress
\* while a task named in its dependencies is not completed, in parallel mode and in
\* sequential mode.
C36_DependenciesRespected ==
    [][\A task_id \in AllTaskIds :
          BecomesInProgress(task_id) =>
              \A dep \in DependenciesOf(store, task_id) :
                  HasIndex(store, dep) /\ get_task_by_id(store, dep).status = "completed"]_vars

\* C36, amended (dependencies respected by the scheduler batch): with
\* ENABLE_PARALLEL_EXECUTION true no task goes from pending to in_progress while a task
\* named in its dependencies is not completed.
C36_DependenciesRespectedInParallel ==
    [][\A task_id \in AllTaskIds :
          (drv.parallel /\ BecomesInProgress(task_id)) =>
              \A dep \in DependenciesOf(store, task_id) :
                  HasIndex(store, dep) /\ get_task_by_id(store, dep).status = "completed"]_vars

\* C36 witness: in parallel mode a Worker runs a task that names a dependency
C36_DependentTaskRunsInBatch ==
    /\ drv.pc = "workers" /\ drv.parallel
    /\ \E w \in DOMAIN drv.workers :
          /\ drv.workers[w].pc = "run"
          /\ DependenciesOf(store, w) # {}
          /\ StatusOf(store, w) = "in_progress"

(***************************************************************************)
(* SpecModels: the Workers of one parallel batch inside                    *)
(* WorkerAgent._run_internal, with MODEL_SELECTION_ENABLED.  Every Worker  *)
(* of run_worker_task is built with config=worker_config, the one          *)
(* dictionary of the driver, and BaseAgent keeps the reference.            *)
(* ms.config is worker_config["model"].                                    *)
(***************************************************************************)
MaxBatches == 2   \* SpecModels: batches run one after the other

ModelWorkers == {FormatTaskId(1), FormatTaskId(2)}

\* tasks of the three complexity classes
ModelTasks ==
    {[title |-> "small", files |-> <<"a.py">>, estimated_hours |-> 0, priority |-> "low"],
     [title |-> "medium", files |-> <<"a.py", "b.py">>, estimated_hours |-> 2],
     [title |-> "large", files |-> <<"a.py", "b.py">>, estimated_hours |-> 6,
      priority |-> "HIGH"]}

\* WORKER_MODEL and the three models of the selection, configured to differ
WORKER_MODEL == "worker-model"

WORKER_MODEL_LIGHT == "light-model"

WORKER_MODEL_STANDARD == "standard-model"

WORKER_MODEL_POWERFUL == "powerful-model"

\* the thresholds 10.0 and 30.0, and the score, in thousandths
MODEL_COMPLEXITY_THRESHOLD_LIGHT == 10000

MODEL_COMPLEXITY_THRESHOLD_POWERFUL == 30000

\* ModelSelector.calculate_complexity_score, in thousandths: the length of the
\* description, 2.0 per file, 5.0 per estimated hour, and the priority 1..3
calculate_complexity_score(task) ==
    Len(Get(task, "description", <<>>))
        + Len(Get(task, "files", <<>>)) * 2000
        + Get(task, "estimated_hours", 0) * 5000
        + (CASE Lower(Get(task, "priority", "medium")) = "high" -> 3
             [] Lower(Get(task, "priority", "medium")) = "low" -> 1
             [] OTHER -> 2) * 1000

\* ModelSelector.select_model with the selection enabled
select_model(task) ==
    IF calculate_complexity_score(task) < MODEL_COMPLEXITY_THRESHOLD_LIGHT
    THEN WORKER_MODEL_LIGHT
    ELSE IF calculate_complexity_score(task) >= MODEL_COMPLEXITY_THRESHOLD_POWERFUL
    THEN WORKER_MODEL_POWERFUL
    ELSE WORKER_MODEL_STANDARD

OtherThanModels == <<storeVars, lockVars, lk, sched, rt, uj, drv>>

\* original_model = self.config.get("model"); selected_model = select_model(task)
MSelectModel(w) ==
    /\ ms.workers[w].pc = "select"
    /\ ms' = [ms EXCEPT !.workers[w].pc = "set",
                        !.workers[w].original_model = ms.config,
                        !.workers[w].selected_model = select_model(ms.workers[w].task)]
    /\ UNCHANGED OtherThanModels

\* if selected_model != original_model: self.config["model"] = selected_model
MSetModel(w) ==
    /\ ms.workers[w].pc = "set"
    /\ ms' = [ms EXCEPT !.workers[w].pc = "call",
                        !.config = IF ms.workers[w].selected_model # ms.workers[w].original_model
                                   THEN ms.workers[w].selected_model ELSE @]
    /\ UNCHANGED OtherThanModels

\* BaseAgent._run_internal: call_agent(model=self.config.get("model"))
MCallAgent(w) ==
    /\ ms.workers[w].pc = "call"
    /\ ms' = [ms EXCEPT !.workers[w].pc = "restore", !.workers[w].called_with = ms.config]
    /\ UNCHANGED OtherThanModels

\* finally: if selected_model != original_model: self.config["model"] = original_model
MRestoreModel(w) ==
    /\ ms.workers[w].pc = "restore"
    /\ ms' = [ms EXCEPT !.workers[w].pc = "done",
                        !.config = IF ms.workers[w].selected_model # ms.workers[w].original_model
                                   THEN ms.workers[w].original_model ELSE @]
    /\ UNCHANGED OtherThanModels

ModelWorkerStart(task) ==
    [pc |-> "select", task |-> task, original_model |-> "none", selected_model |-> "none",
     called_with |-> "none"]

\* the executor block is left when every Worker has returned; the next iteration submits
\* the next batch
MNextBatch(tasks) ==
    /\ \A w \in ModelWorkers : ms.workers[w].pc = "done"
    /\ ms.batch < MaxBatches
    /\ ms' = [ms EXCEPT !.workers = [w \in ModelWorkers |-> ModelWorkerStart(tasks[w])],
                        !.batch = @ + 1, !.before = ms.config]
    /\ UNCHANGED OtherThanModels

InitModels ==
    /\ ms \in {[config |-> WORKER_MODEL, before |-> WORKER_MODEL, batch |-> 1,
                workers |-> [w \in ModelWorkers |-> ModelWorkerStart(tasks[w])]] :
                  tasks \in [ModelWorkers -> ModelTasks]}
    /\ store = FreshStore /\ ckpts = EmptyDict /\ backups = EmptyDict
    /\ taken = EmptyDict /\ returned = <<>> /\ sop = SopIdle
    /\ lockDir = EmptyDict /\ now = 0 /\ lk = NoCallers
    /\ sched = SchedIdle /\ rt = RtIdle /\ uj = NoCallers /\ drv = DrvIdle

NextModels ==
    \/ \E w \in ModelWorkers : MSelectModel(w)
    \/ \E w \in ModelWorkers : MSetModel(w)
    \/ \E w \in ModelWorkers : MCallAgent(w)
    \/ \E w \in ModelWorkers : MRestoreModel(w)
    \/ \E tasks \in [ModelWorkers -> ModelTasks] : MNextBatch(tasks)

SpecModels == InitModels /\ [][NextModels]_vars

\* C37 (per-Worker model isolation): with dynamic model selection and several Workers of
\* a batch running at once, the LLM call of each Worker uses the model selected for its
\* own task, and after the batch the model of the Worker configuration is what it was
\* before the batch.
C37_ModelIsolation ==
    /\ \A w \in ModelWorkers :
          ms.workers[w].called_with # "none" =>
              ms.workers[w].called_with = select_model(ms.workers[w].task)
    /\ (\A w \in ModelWorkers : ms.workers[w].pc = "done") => ms.config = ms.before

\* caller c returns from release_lock in this step
ReleaseStep(c) == lk[c].pc = "held" /\ lk'[c].pc = "idle"

\* C38 (release respects ownership): release_lock(p) issued by the Worker of task A never
\* removes a lock file of p that names another task as its owner, for instance after A's
\* lock was reclaimed as stale and B acquired p.
C38_ReleaseRespectsOwnership ==
    [][\A c \in LockCallers :
          LET lock_file == lock_file_of(lk[c].filepath) IN
          (ReleaseStep(c) /\ lock_file \in DOMAIN lockDir /\ lockDir[lock_file].task_id # c)
              => (lock_file \in DOMAIN lockDir' /\ lockDir'[lock_file] = lockDir[lock_file])]_vars

(***************************************************************************)
(* SpecAttempt: one call of Planner.run, statement by statement of         *)
(* _run_internal: load_state and build_prompt, call_agent, parse_response  *)
(* (whose errors end in the fallback result), update_state, the log.       *)
(* LLMError is raised by utils/cursor_cli_client.py alone, so by           *)
(* call_agent; update_state raises other exceptions.                       *)
(***************************************************************************)
\* the except clauses of run with any failed attempt retried
handle_exception_retry_any(error, attempt, max_retries) ==
    IF attempt < max_retries - 1 THEN "retry" ELSE "raise"

\* the except clauses of run: a retryable LLMError is retried while attempts are left,
\* every other exception is raised
handle_exception(error, attempt, max_retries) ==
    IF IsLLMError(error) /\ retryable(error) /\ attempt < max_retries - 1
    THEN "retry" ELSE "raise"

\* before is the state directory when run was called
AttemptIdle == [pc |-> "idle", max_retries |-> 0, attempt |-> 0, updates |-> 0,
                llm_returned |-> FALSE, applied |-> <<>>, before |-> FreshStore]

\* rt after the exception error of the running attempt
Raised(error) ==
    IF handle_exception(error, rt.attempt, rt.max_retries) = "retry"
    THEN [rt EXCEPT !.pc = "load_state", !.attempt = @ + 1, !.llm_returned = FALSE]
    ELSE [rt EXCEPT !.pc = "raised"]

\* what the Planner answers in the runs of SpecAttempt
AttemptResults == {[new_tasks |-> <<TaskA>>], [plan_update |-> "plan A"], [new_tasks |-> <<>>]}

\* run(max_retries = n): range(0) is empty and run returns None
IRunCall(n) ==
    /\ rt.pc = "idle"
    /\ rt' = [AttemptIdle EXCEPT !.max_retries = n, !.before = store,
                                 !.pc = IF n = 0 THEN "returned_none" ELSE "load_state"]
    /\ UNCHANGED <<storeVars, lockVars, lk, sched, uj, drv, ms>>

\* load_state and build_prompt return
IBuildPrompt ==
    /\ rt.pc = "load_state"
    /\ rt' = [rt EXCEPT !.pc = "call_agent"]
    /\ UNCHANGED <<storeVars, lockVars, lk, sched, uj, drv, ms>>

\* load_state raises a StateError, or build_prompt any other exception
IBuildPromptRaises(error) ==
    /\ rt.pc = "load_state"
    /\ rt' = Raised(error)
    /\ UNCHANGED <<storeVars, lockVars, lk, sched, uj, drv, ms>>

\* call_agent returns the response, or raises an LLMError
ICallAgent(outcome) ==
    /\ rt.pc = "call_agent"
    /\ rt' = IF outcome = "ok" THEN [rt EXCEPT !.pc = "update_state", !.llm_returned = TRUE]
             ELSE Raised(outcome)
    /\ UNCHANGED <<storeVars, lockVars, lk, sched, uj, drv, ms>>

\* update_state(result) is applied; it returns, or it raises after its writes
IUpdateState(result, raises) ==
    /\ rt.pc = "update_state"
    /\ Cardinality(IndexIds(store)) + Len(Get(result, "new_tasks", <<>>)) <= MaxTasks
    /\ store' = planner_update_state(store, result)
    /\ rt' = IF raises
             THEN [Raised("unexpected") EXCEPT !.updates = @ + 1,
                                               !.applied = Append(@, rt.llm_returned)]
             ELSE [rt EXCEPT !.pc = "returned", !.updates = @ + 1,
                             !.applied = Append(@, rt.llm_returned)]
    /\ UNCHANGED <<ckpts, backups, taken, returned, sop, lockVars, lk, sched, uj, drv, ms>>

InitAttempt ==
    /\ rt = AttemptIdle
    /\ store \in {FreshStore, SeededStore}
    /\ ckpts = EmptyDict /\ backups = EmptyDict
    /\ taken = EmptyDict /\ returned = <<>> /\ sop = SopIdle
    /\ lockDir = EmptyDict /\ now = 0 /\ lk = NoCallers
    /\ sched = SchedIdle /\ uj = NoCallers /\ drv = DrvIdle /\ ms = MsIdle

NextAttempt ==
    \/ \E n \in 0..MaxRetriesBound : IRunCall(n)
    \/ IBuildPrompt
    \/ \E error \in {"agent_error", "unexpected"} : IBuildPromptRaises(error)
    \/ \E outcome \in RetryableOutcomes \cup {"ok", "llm_fatal"} : ICallAgent(outcome)
    \/ \E result \in AttemptResults, raises \in BOOLEAN : IUpdateState(result, raises)

SpecAttempt == InitAttempt /\ [][NextAttempt]_vars

\* the number of tasks in the index
IndexSize(s) == Len(get_tasks_file(s).tasks)

\* C39 (at most one state mutation per run): in one call of run, update_state is applied
\* at most once and only after the LLM call of the same attempt has returned; once it has
\* been applied no further attempt starts, so the index gains the new_tasks of one
\* response at most.
C39_AtMostOneMutation ==
    /\ rt.updates <= 1
    /\ \A i \in DOMAIN rt.applied : rt.applied[i] = TRUE
    /\ (rt.pc \in {"load_state", "call_agent", "update_state"}) => rt.updates = 0
    /\ rt.pc # "idle" =>
          \/ store = rt.before
          \/ \E result \in AttemptResults : store = planner_update_state(rt.before, result)

\* C39 witness: a run whose first attempt failed with a retryable LLM error and whose
\* later attempt applied update_state and added the task
C39_MutatedOnceAfterRetry ==
    /\ rt.pc = "returned" /\ rt.attempt >= 1 /\ rt.updates = 1
    /\ IndexSize(store) = 1

(***************************************************************************)
(* SpecProgress: the parallel driver on a state directory that holds       *)
(* pending tasks, with a Planner that adds nothing and no interrupt: the   *)
(* loop goes through its Worker phase once per run, run after run.         *)
(***************************************************************************)
\* the state directories the runs start on: two pending tasks without dependencies
ProgressStores ==
    {planner_update_state(FreshStore, [new_tasks |-> new_tasks]) :
        new_tasks \in {<<TaskA, TaskB>>, <<TaskA, TaskD>>, <<TaskB, TaskG>>}}

InitProgress ==
    /\ store \in ProgressStores
    /\ ckpts = EmptyDict /\ lockDir = EmptyDict
    /\ drv = [pc |-> "off", run |-> 0, iteration |-> 0, parallel |-> TRUE,
              max_iterations |-> 2, max_retries |-> MAX_RETRIES, workers |-> EmptyDict]
    /\ backups = EmptyDict /\ taken = EmptyDict /\ returned = <<>> /\ sop = SopIdle
    /\ now = 0 /\ lk = NoCallers /\ sched = SchedIdle /\ rt = RtIdle /\ uj = NoCallers
    /\ ms = MsIdle

NextProgress ==
    \/ DStartRun
    \/ DIterate
    \/ DPlannerFails
    \/ DScheduleParallel
    \/ \E w \in AllTaskIds : WAcquireLocks(w)
    \/ \E w \in AllTaskIds : WAssignTask(w)
    \/ \E w \in AllTaskIds : WRunFails(w)
    \/ \E w \in AllTaskIds : WWriteResult(w)
    \/ \E w \in AllTaskIds : WMarkCompleted(w)
    \/ \E w \in AllTaskIds : WStatisticsRaise(w)
    \/ \E w \in AllTaskIds : WReleaseLocks(w)
    \/ DJoin
    \/ \E result \in JudgeResults : DJudgeRuns(result)
    \/ DJudgeFails
    \/ DDecide

SpecProgress == InitProgress /\ [][NextProgress]_vars

\* task_id is pending and every task named in its dependencies is completed
PendingAndReady(s, task_id) ==
    /\ HasIndex(s, task_id)
    /\ get_task_by_id(s, task_id).status = "pending"
    /\ all_completed(s, get_task_by_id(s, task_id))

\* as many Worker phases have ended as the state directory had tasks at the start
LoopHasIterated == drv.run = MaxRuns /\ drv.pc = "crashed"

\* C40 (scheduling progress): with a Planner that adds no task and the loop iterating,
\* every pending task whose dependencies are completed is assigned to a Worker, i.e.
\* leaves pending, in some later iteration, whatever its priority and the paths of its
\* file list: after one Worker phase per task none of them is still pending.
C40_SchedulingProgress ==
    LoopHasIterated => \A task_id \in AllTaskIds : ~PendingAndReady(store, task_id)

\* C40 for the tasks whose file list names no file twice
C40_SchedulingProgressDistinctFiles ==
    LoopHasIterated =>
        \A task_id \in AllTaskIds :
            PendingAndReady(store, task_id) =>
                LET task_files == _extract_task_files(get_task_by_id(store, task_id)) IN
                \E i, j \in DOMAIN task_files :
                    i # j /\ lock_file_of(task_files[i]) = lock_file_of(task_files[j])

====
